---- MODULE Spec2Model ----
(***************************************************************************)
(* Development Plan Lifecycle & Progress Engine                            *)
(* (backend/app/services/plan_service.py, class PlanService).              *)
(*                                                                         *)
(* Three specifications share the variables below:                         *)
(*   Spec       - the calls of one user one after another (each endpoint   *)
(*                or background call is one action, from its first SELECT  *)
(*                to its last COMMIT);                                     *)
(*   SpecAssign - _assign_tests_to_materials / sync_plan_tracking applied  *)
(*                to inputs drawn from bounded sets;                       *)
(*   SpecConc   - two database sessions of one user whose service calls    *)
(*                overlap, split at their SELECTs and COMMITs.             *)
(***************************************************************************)
EXTENDS Integers, Sequences, FiniteSets, TLC

VARIABLES
    plans,          \* table development_plans of the user, in insertion order
    tests,          \* table tests (assessment catalog); a test's id is its index
    events,         \* user_test_results + case_solutions rows: <<test_id, time>>
    profile,        \* soft_skills_profiles row: skill -> score
    history,        \* number of profile_history rows
    analyses,       \* number of analysis_results rows (capped at the threshold)
    clock,          \* database now()
    result,         \* what the last service call returned
    ain,            \* SpecAssign: the inputs of _assign_tests_to_materials
    aout,           \* SpecAssign: successive results
    sess            \* SpecConc: the two sessions

vars == <<plans, tests, events, profile, history, analyses, clock, result, ain, aout, sess>>

-----------------------------------------------------------------------------
(* Bounds of the model *)

MaxPlans == 2           \* plans generated per behaviour
MaxEvents == 3          \* completion events recorded per behaviour
MaterialLimit == 1      \* the limit argument of _select_curated_materials (default 7)
MaxAssignMaterials == 2 \* SpecAssign: materials of a plan
MaxAssignTests == 3     \* SpecAssign: eligible assessments in the catalog
MaxAssignPasses == 2    \* SpecAssign: successive calls of _assign_tests_to_materials
MaxConcPlans == 3       \* SpecConc: plan rows of the user
MaxCollectPlans == 2    \* SpecCollect: plan rows of the drawn history
MaxUniqueMaterials == 10   \* materials of a plan content given to _check_material_uniqueness
MaxProgressTasks == 2      \* SpecProgress: tasks of the drawn plan
MaxProgressMaterials == 2  \* SpecProgress: materials of the drawn plan
MaxOpenClock == 3          \* SpecOpen: the latest time of a call
MaxFinalPlans == 5         \* SpecFinal: plan rows of the user
MaxRaiseHistory == 2       \* SpecRaise: profile_history rows of the user

(* Program constants *)

MIN_ANALYSES_FOR_PLAN == 3
LevelUpStep == 8
MaxPerDomain == 3

NoId == 0       \* None for a test id
NoTime == -1    \* None for a timestamp

Skills == <<"communication", "emotional_intelligence", "critical_thinking",
            "time_management", "leadership">>
SkillSet == {Skills[i] : i \in 1..Len(Skills)}

Difficulties == {"beginner", "intermediate", "advanced"}

-----------------------------------------------------------------------------
(* Generic helpers *)

Min(S) == CHOOSE x \in S : \A y \in S : x <= y
Max(S) == CHOOSE x \in S : \A y \in S : x >= y

SeqToSet(s) == {s[i] : i \in 1..Len(s)}

\* dict.get(key, default)
Get(f, k, default) == IF k \in DOMAIN f THEN f[k] ELSE default

EmptyMap == <<>>

-----------------------------------------------------------------------------
(* Assessments.  A row of table tests is                                     *)
(*   [id, type, skill, title, description, questions]:                       *)
(* skill is the first skill of _skill_keywords one of whose keywords occurs  *)
(* in title + description ("none" when none occurs); title and description   *)
(* are "regular" or one of the reserved final-stage texts below (written    *)
(* here in transliteration); questions names the question set of the row.   *)

TestTypes == {"quiz", "case", "simulation"}

\* _normalize_difficulty
NormalizeDifficulty(value) ==
    IF value = "advanced" THEN "advanced"
    ELSE IF value = "intermediate" THEN "intermediate"
    ELSE "beginner"

\* _final_test_title
FinalTestTitle(target_difficulty) ==
    LET normalized == NormalizeDifficulty(target_difficulty)
    IN CASE normalized = "advanced" -> "Itogovyi test (advanced)"
         [] normalized = "intermediate" -> "Itogovyi test (intermediate)"
         [] OTHER -> "Itogovyi test (beginner)"

\* _legacy_final_test_title
LegacyFinalTestTitle(target_difficulty) ==
    LET normalized == NormalizeDifficulty(target_difficulty)
    IN CASE normalized = "advanced" -> "[FINAL] Itogovyi test (advanced)"
         [] normalized = "intermediate" -> "[FINAL] Itogovyi test (intermediate)"
         [] OTHER -> "[FINAL] Itogovyi test (beginner)"

\* _final_simulation_title
FinalSimulationTitle(target_difficulty) ==
    LET normalized == NormalizeDifficulty(target_difficulty)
    IN CASE normalized = "advanced" -> "Itogovaya rolevaya igra (advanced)"
         [] normalized = "intermediate" -> "Itogovaya rolevaya igra (intermediate)"
         [] OTHER -> "Itogovaya rolevaya igra (beginner)"

\* _legacy_final_simulation_title
LegacyFinalSimulationTitle(target_difficulty) ==
    LET normalized == NormalizeDifficulty(target_difficulty)
    IN CASE normalized = "advanced" -> "[FINAL] Itogovaya rolevaya igra (advanced)"
         [] normalized = "intermediate" -> "[FINAL] Itogovaya rolevaya igra (intermediate)"
         [] OTHER -> "[FINAL] Itogovaya rolevaya igra (beginner)"

\* _final_test_description
FinalTestDescription(target_difficulty) ==
    LET normalized == NormalizeDifficulty(target_difficulty)
    IN CASE normalized = "advanced" -> "Finalnaya proverka urovnya advanced"
         [] normalized = "intermediate" -> "Finalnaya proverka urovnya intermediate"
         [] OTHER -> "Finalnaya proverka urovnya beginner"

\* _final_simulation_description
FinalSimulationDescription(target_difficulty) ==
    LET normalized == NormalizeDifficulty(target_difficulty)
    IN CASE normalized = "advanced" -> "Finalnaya rolevaya igra urovnya advanced"
         [] normalized = "intermediate" -> "Finalnaya rolevaya igra urovnya intermediate"
         [] OTHER -> "Finalnaya rolevaya igra urovnya beginner"

\* _final_test_questions / _final_simulation_intro: the fixed question set
FinalTestQuestions(target_difficulty) ==
    LET normalized == NormalizeDifficulty(target_difficulty)
    IN CASE normalized = "advanced" -> "test questions advanced"
         [] normalized = "intermediate" -> "test questions intermediate"
         [] OTHER -> "test questions beginner"

FinalSimulationIntro(target_difficulty) ==
    LET normalized == NormalizeDifficulty(target_difficulty)
    IN CASE normalized = "advanced" -> "simulation intro advanced"
         [] normalized = "intermediate" -> "simulation intro intermediate"
         [] OTHER -> "simulation intro beginner"

\* _strip_final_marker
StripFinalMarker(value) ==
    CASE \E d \in Difficulties : value = LegacyFinalTestTitle(d) ->
            FinalTestTitle(CHOOSE d \in Difficulties : value = LegacyFinalTestTitle(d))
      [] \E d \in Difficulties : value = LegacyFinalSimulationTitle(d) ->
            FinalSimulationTitle(CHOOSE d \in Difficulties : value = LegacyFinalSimulationTitle(d))
      [] OTHER -> value

\* _is_final_title.  _normalize_text lowercases the value before the patterns
\* are tried.  The Cyrillic patterns are stored in plan_service.py in a
\* mis-decoded form that contains capital letters, so no lowercased text
\* contains them; the reserved titles and descriptions above are stored in the
\* same form and contain none of the Latin patterns.  What is left is the
\* "[final]" marker, carried by the legacy titles only.
IsFinalTitle(value) ==
    \E d \in Difficulties :
        value \in {LegacyFinalTestTitle(d), LegacyFinalSimulationTitle(d)}

\* _is_final_test: the title or the description matches a reserved pattern
IsFinalTest(t) == IsFinalTitle(t.title) \/ IsFinalTitle(t.description)

\* the keyword match of _assign_tests_to_materials (first matching skill)
MatchedSkill(t) == t.skill

\* a regular (not final-stage) assessment row
RegularTest(id, type, skill) ==
    [id |-> id, type |-> type, skill |-> skill, title |-> "regular",
     description |-> "regular", questions |-> "regular"]

IdsOf(testlist) == [i \in 1..Len(testlist) |-> testlist[i].id]

\* faulty variant of CanReuseExisting: a binding is kept although an earlier
\* material took the assessment
CanReuseExistingThoughUsed(current_id, skill_candidate_ids, tests_by_id, used_ids, completed_ids) ==
    IF current_id \notin tests_by_id THEN FALSE
    ELSE IF current_id \notin completed_ids THEN TRUE
    ELSE IF skill_candidate_ids = <<>> THEN TRUE
    ELSE ~(\E i \in 1..Len(skill_candidate_ids) :
              /\ skill_candidate_ids[i] # current_id
              /\ skill_candidate_ids[i] \notin completed_ids)

\* faulty variant of CanReuseExisting: the stored binding is never kept
CanReuseExistingNever(current_id, skill_candidate_ids, tests_by_id, used_ids, completed_ids) == FALSE

\* _can_reuse_existing of _assign_tests_to_materials
CanReuseExisting(current_id, skill_candidate_ids, tests_by_id, used_ids, completed_ids) ==
    IF current_id \notin tests_by_id \/ current_id \in used_ids THEN FALSE
    ELSE IF current_id \notin completed_ids THEN TRUE
    ELSE IF skill_candidate_ids = <<>> THEN TRUE
    ELSE ~(\E i \in 1..Len(skill_candidate_ids) :
              /\ skill_candidate_ids[i] # current_id
              /\ skill_candidate_ids[i] \notin completed_ids)

\* the smallest offset (from start_idx, cyclically) whose candidate is in Ok; -1 if none
FirstOffset(candidate_ids, start_idx, Ok) ==
    LET n == Len(candidate_ids)
        hits == {off \in 0..(n - 1) : candidate_ids[((start_idx + off) % n) + 1] \in Ok}
    IN IF hits = {} THEN -1 ELSE Min(hits)

\* faulty variant of PickCandidate: nothing is selected when every candidate
\* is bound already
PickOnlyUnused(candidate_ids, start_idx, used_ids, completed_ids) ==
    IF candidate_ids = <<>> THEN <<NoId, start_idx>>
    ELSE
    LET n == Len(candidate_ids)
        all == SeqToSet(candidate_ids)
        o1 == FirstOffset(candidate_ids, start_idx, all \ (used_ids \cup completed_ids))
        o2 == FirstOffset(candidate_ids, start_idx, all \ used_ids)
        At(off) == <<candidate_ids[((start_idx + off) % n) + 1], ((start_idx + off) % n) + 1>>
    IN IF o1 >= 0 THEN At(o1)
       ELSE IF o2 >= 0 THEN At(o2)
       ELSE <<NoId, start_idx>>

\* _pick_candidate of _assign_tests_to_materials: <<selected id, next cursor>>
PickCandidate(candidate_ids, start_idx, used_ids, completed_ids) ==
    IF candidate_ids = <<>> THEN <<NoId, start_idx>>
    ELSE
    LET n == Len(candidate_ids)
        all == SeqToSet(candidate_ids)
        o1 == FirstOffset(candidate_ids, start_idx, all \ (used_ids \cup completed_ids))
        o2 == FirstOffset(candidate_ids, start_idx, all \ used_ids)
        o3 == FirstOffset(candidate_ids, start_idx, all \ completed_ids)
        At(off) == <<candidate_ids[((start_idx + off) % n) + 1], ((start_idx + off) % n) + 1>>
    IN IF o1 >= 0 THEN At(o1)
       ELSE IF o2 >= 0 THEN At(o2)
       ELSE IF o3 >= 0 THEN At(o3)
       ELSE <<candidate_ids[(start_idx % n) + 1], start_idx + 1>>

\* tests that may be linked to a material: no simulation, no final-stage item
FilteredTests(testlist) ==
    SelectSeq(testlist, LAMBDA t : t.type # "simulation" /\ ~IsFinalTest(t))

\* tests_by_skill[skill] of _assign_tests_to_materials
TestsBySkill(testlist, skill) ==
    IdsOf(SelectSeq(FilteredTests(testlist), LAMBDA t : MatchedSkill(t) = skill))

\* the candidate list a material picks from
CandidateIds(testlist, material) ==
    IF material.skill \in SkillSet THEN TestsBySkill(testlist, material.skill) ELSE <<>>

\* one iteration of the loop over materials in _assign_tests_to_materials
AssignStep(acc, material, testlist, existing_map, completed_ids) ==
    LET filtered == FilteredTests(testlist)
        tests_by_id == SeqToSet(IdsOf(filtered))
        fallback_ids == IdsOf(filtered)
        current_id == Get(existing_map, material.id, NoId)
        skill == material.skill
        candidate_ids == CandidateIds(testlist, material)
        p1 == PickCandidate(candidate_ids, Get(acc.usage_cursor, skill, 0),
                            acc.used_ids, completed_ids)
        cursor1 == IF candidate_ids # <<>>
                   THEN (skill :> p1[2]) @@ acc.usage_cursor
                   ELSE acc.usage_cursor
        p2 == PickCandidate(fallback_ids, acc.fallback_cursor, acc.used_ids, completed_ids)
        useFallback == p1[1] = NoId /\ fallback_ids # <<>>
        selected_id == IF useFallback THEN p2[1] ELSE p1[1]
    IN IF current_id # NoId
          /\ CanReuseExisting(current_id, candidate_ids, tests_by_id, acc.used_ids, completed_ids)
       THEN [acc EXCEPT !.mapping = (material.id :> current_id) @@ @,
                        !.used_ids = @ \cup {current_id}]
       ELSE [mapping |-> IF selected_id # NoId
                         THEN (material.id :> selected_id) @@ acc.mapping
                         ELSE acc.mapping,
             used_ids |-> IF selected_id # NoId
                          THEN acc.used_ids \cup {selected_id}
                          ELSE acc.used_ids,
             usage_cursor |-> cursor1,
             fallback_cursor |-> IF useFallback THEN p2[2] ELSE acc.fallback_cursor]

\* the state of _assign_tests_to_materials after its first k materials
AssignPrefix(materials, testlist, existing_map, completed_test_ids, k) ==
    LET completed_ids == {t \in completed_test_ids : t > 0}
        run[i \in 0..k] ==
            IF i = 0
            THEN [mapping |-> EmptyMap, used_ids |-> {},
                  usage_cursor |-> [s \in SkillSet |-> 0], fallback_cursor |-> 0]
            ELSE LET before == run[i - 1]
                 IN AssignStep(before, materials[i], testlist, existing_map, completed_ids)
    IN run[k]

\* _assign_tests_to_materials: material id -> assessment id
AssignTestsToMaterials(materials, testlist, existing_map, completed_test_ids) ==
    AssignPrefix(materials, testlist, existing_map, completed_test_ids, Len(materials)).mapping

-----------------------------------------------------------------------------
(* The plan content document                                                 *)
(*   material        [id, skill, type, domain]                               *)
(*   task            [id, status, completed_at]                              *)
(*   progress entry  [full, linked_test_id, article_opened,                  *)
(*                    article_opened_at, test_completed, test_completed_at,  *)
(*                    percentage]; full = the entry has all six keys (one    *)
(*                    written by mark_material_article_open alone has not)   *)
(*   final_stage     the record below; present = the key exists              *)
(* Percentages of the aggregate progress are kept in hundredths of a percent *)
(* (round(x, 2) of the source).                                              *)

PercentScale == 100

NoFinalStage ==
    [present |-> FALSE, final_test_id |-> NoId, final_simulation_id |-> NoId,
     unlocked |-> FALSE, final_test_completed |-> FALSE,
     final_simulation_completed |-> FALSE, completed |-> FALSE,
     level_up_applied |-> FALSE, completed_at |-> NoTime, achievement_title |-> "none"]

NoEntry ==
    [full |-> FALSE, linked_test_id |-> NoId, article_opened |-> FALSE,
     article_opened_at |-> NoTime, test_completed |-> FALSE,
     test_completed_at |-> NoTime, percentage |-> 0]

\* _material_progress_percentage
MaterialProgressPercentage(article_opened, test_completed) ==
    (IF article_opened THEN 50 ELSE 0) + (IF test_completed THEN 50 ELSE 0)

\* round(completed / total * 100.0, 2), in hundredths of a percent (ties to even)
RoundPercentage(completed, total) ==
    LET scaled == completed * 100 * PercentScale
        q == scaled \div total
        r == scaled % total
    IN IF 2 * r > total THEN q + 1
       ELSE IF 2 * r = total THEN q + (q % 2)
       ELSE q

\* faulty variant of ComputeComponentsProgress: a plan with nothing to do
\* counts as done
EmptyPlanIsDone(tasks, materials, material_progress) ==
    LET completed_tasks == Cardinality({i \in 1..Len(tasks) : tasks[i].status = "completed"})
        opened_articles ==
            Cardinality({i \in 1..Len(materials) :
                Get(material_progress, materials[i].id, NoEntry).article_opened})
        completed_material_tests ==
            Cardinality({i \in 1..Len(materials) :
                Get(material_progress, materials[i].id, NoEntry).test_completed})
        completed == completed_tasks + opened_articles + completed_material_tests
        total == Len(tasks) + Len(materials) * 2
    IN [completed |-> completed, total |-> total,
        percentage |-> IF total > 0 THEN RoundPercentage(completed, total)
                       ELSE 100 * PercentScale]

\* _compute_components_progress
ComputeComponentsProgress(tasks, materials, material_progress) ==
    LET completed_tasks == Cardinality({i \in 1..Len(tasks) : tasks[i].status = "completed"})
        opened_articles ==
            Cardinality({i \in 1..Len(materials) :
                Get(material_progress, materials[i].id, NoEntry).article_opened})
        completed_material_tests ==
            Cardinality({i \in 1..Len(materials) :
                Get(material_progress, materials[i].id, NoEntry).test_completed})
        completed == completed_tasks + opened_articles + completed_material_tests
        total == Len(tasks) + Len(materials) * 2
    IN [completed |-> completed, total |-> total,
        percentage |-> IF total > 0 THEN RoundPercentage(completed, total) ELSE 0]

\* _difficulty_ru_label
DifficultyRuLabel(difficulty) ==
    IF difficulty = "advanced" THEN "advanced-label"
    ELSE IF difficulty = "intermediate" THEN "intermediate-label"
    ELSE "beginner-label"

\* _build_block_achievement_title: "first <label> block passed"
BuildBlockAchievementTitle(content) == DifficultyRuLabel(content.target_difficulty)

\* faulty variant of NextLevelFloorForDifficulty: the beginner floor for every block
FloorAlwaysBeginner(difficulty) == 45

\* _next_level_floor_for_difficulty
NextLevelFloorForDifficulty(difficulty) ==
    IF difficulty = "advanced" THEN 85
    ELSE IF difficulty = "intermediate" THEN 75
    ELSE 45

\* faulty variant of GetCompletionTestIds: the lower bound is not applied
CompletionsEver(evts, test_ids, completed_after, completed_before) ==
    {e[1] : e \in {x \in evts :
        /\ x[1] \in test_ids
        /\ x[1] > 0
        /\ (completed_before # NoTime => x[2] < completed_before)}}

\* _get_completion_test_ids: ids of test_ids the user completed in [after, before)
GetCompletionTestIds(evts, test_ids, completed_after, completed_before) ==
    {e[1] : e \in {x \in evts :
        /\ x[1] \in test_ids
        /\ x[1] > 0
        /\ (completed_after # NoTime => x[2] >= completed_after)
        /\ (completed_before # NoTime => x[2] < completed_before)}}

-----------------------------------------------------------------------------
(* Final-stage provisioning and the progress synchronizer *)

\* a row of testlist by id (the caller knows it exists)
TestById(testlist, id) == testlist[CHOOSE i \in 1..Len(testlist) : testlist[i].id = id]

\* the final-test half of _ensure_final_stage_tests: <<catalog, id of the final test>>
EnsureFinalTest(final_stage, target_difficulty, testlist) ==
    LET byId == {i \in 1..Len(testlist) :
                    /\ final_stage.final_test_id # NoId
                    /\ testlist[i].id = final_stage.final_test_id
                    /\ testlist[i].type # "simulation"}
        byTitle == {i \in 1..Len(testlist) :
                    /\ testlist[i].type = "quiz"
                    /\ testlist[i].title \in {FinalTestTitle(target_difficulty),
                                              LegacyFinalTestTitle(target_difficulty)}}
        found == IF byId # {} THEN Min(byId) ELSE IF byTitle # {} THEN Min(byTitle) ELSE 0
        created == [id |-> Len(testlist) + 1, type |-> "quiz", skill |-> "none",
                    title |-> FinalTestTitle(target_difficulty),
                    description |-> FinalTestDescription(target_difficulty),
                    questions |-> FinalTestQuestions(target_difficulty)]
    IN IF found = 0
       THEN <<Append(testlist, created), created.id>>
       ELSE <<[testlist EXCEPT ![found] =
                  [@ EXCEPT !.title = StripFinalMarker(@),
                            !.description = FinalTestDescription(target_difficulty),
                            !.questions = FinalTestQuestions(target_difficulty)]],
              testlist[found].id>>

\* the final-simulation half of _ensure_final_stage_tests
EnsureFinalSimulation(final_stage, target_difficulty, testlist) ==
    LET byId == {i \in 1..Len(testlist) :
                    /\ final_stage.final_simulation_id # NoId
                    /\ testlist[i].id = final_stage.final_simulation_id
                    /\ testlist[i].type = "simulation"}
        byTitle == {i \in 1..Len(testlist) :
                    /\ testlist[i].type = "simulation"
                    /\ testlist[i].title \in {FinalSimulationTitle(target_difficulty),
                                              LegacyFinalSimulationTitle(target_difficulty)}}
        found == IF byId # {} THEN Min(byId) ELSE IF byTitle # {} THEN Min(byTitle) ELSE 0
        created == [id |-> Len(testlist) + 1, type |-> "simulation", skill |-> "none",
                    title |-> FinalSimulationTitle(target_difficulty),
                    description |-> FinalSimulationDescription(target_difficulty),
                    questions |-> FinalSimulationIntro(target_difficulty)]
    IN IF found = 0
       THEN <<Append(testlist, created), created.id>>
       ELSE <<[testlist EXCEPT ![found] =
                  [@ EXCEPT !.title = StripFinalMarker(@),
                            !.description = FinalSimulationDescription(target_difficulty),
                            !.questions = FinalSimulationIntro(target_difficulty)]],
              testlist[found].id>>

\* _ensure_final_stage_tests: the final stage with both ids set, the catalog
\* after the flushes, and the normalized target difficulty written to content
EnsureFinalStageTests(content, testlist) ==
    LET target_difficulty == NormalizeDifficulty(content.target_difficulty)
        final_stage == IF content.final_stage.present THEN content.final_stage
                       ELSE [NoFinalStage EXCEPT !.present = TRUE]
        t == EnsureFinalTest(final_stage, target_difficulty, testlist)
        sim == EnsureFinalSimulation(final_stage, target_difficulty, t[1])
    IN [final_stage |-> [final_stage EXCEPT !.final_test_id = t[2],
                                            !.final_simulation_id = sim[2]],
        tests |-> sim[1],
        target_difficulty |-> target_difficulty]

\* faulty variant of Unlocked: the final stage is open whatever the progress
UnlockedAlways(progress) == TRUE

\* faulty variant of Unlocked: half of the components are enough
UnlockedFromHalf(progress) == 2 * progress.percentage >= 100 * PercentScale

\* the unlocked flag sync_plan_tracking derives from the aggregate progress
Unlocked(progress) == progress.percentage >= 100 * PercentScale

\* faulty variant of FinalCompleted: one final item is enough
EitherCompleted(final_test_completed, final_simulation_completed) ==
    final_test_completed \/ final_simulation_completed

\* the completed flag sync_plan_tracking derives from the two final items
FinalCompleted(final_test_completed, final_simulation_completed) ==
    final_test_completed /\ final_simulation_completed

\* faulty variants of KeepLevelUpApplied: the flag is overwritten
NeverApplied(final_stage) == FALSE
AlwaysApplied(final_stage) == TRUE

\* final_stage.setdefault("level_up_applied", False) in sync_plan_tracking
KeepLevelUpApplied(final_stage) == final_stage.level_up_applied

\* the entry sync_plan_tracking writes for one material
NormalizedEntry(entry, linked_test_id, completed_test_ids, now) ==
    LET test_completed == linked_test_id # NoId /\ linked_test_id \in completed_test_ids
    IN [full |-> TRUE,
        linked_test_id |-> linked_test_id,
        article_opened |-> entry.article_opened,
        article_opened_at |-> entry.article_opened_at,
        test_completed |-> test_completed,
        test_completed_at |->
            IF ~test_completed THEN NoTime
            ELSE IF entry.test_completed_at = NoTime THEN now
            ELSE entry.test_completed_at,
        percentage |-> MaterialProgressPercentage(entry.article_opened, test_completed)]

\* the assessments sync_plan_tracking offers to materials: no simulations and
\* nothing _is_final_test recognizes
RegularTests(testlist) ==
    SelectSeq(testlist, LAMBDA t : t.type # "simulation" /\ ~IsFinalTest(t))

\* the bindings sync_plan_tracking computes for the plan's materials
ComputedMap(plan, regular_tests, evts) ==
    AssignTestsToMaterials(
        plan.content.materials, regular_tests, plan.content.material_test_map,
        GetCompletionTestIds(evts, {x \in SeqToSet(IdsOf(regular_tests)) : x > 0},
                             NoTime, plan.generated_at))

\* the bound assessments completed since the plan was generated
CompletedTestIds(plan, computed_map, evts) ==
    GetCompletionTestIds(
        evts,
        {computed_map[m] : m \in {plan.content.materials[i].id :
                                    i \in 1..Len(plan.content.materials)}
                                 \cap DOMAIN computed_map},
        plan.generated_at, NoTime)

\* the progress entries sync_plan_tracking writes, one per material
NormalizedMaterialProgress(content, computed_map, completed_test_ids, now) ==
    [m \in {content.materials[i].id : i \in 1..Len(content.materials)} |->
        NormalizedEntry(Get(content.material_progress, m, NoEntry),
                        Get(computed_map, m, NoId), completed_test_ids, now)]

\* the final stage sync_plan_tracking writes, given the provisioned stage, the
\* aggregate progress and the final items completed since the plan was generated
SyncedFinalStage(content, ensured, progress, completion_set) ==
    [ensured.final_stage EXCEPT
        !.unlocked = Unlocked(progress),
        !.final_test_completed = ensured.final_stage.final_test_id \in completion_set,
        !.final_simulation_completed =
            ensured.final_stage.final_simulation_id \in completion_set,
        !.completed = FinalCompleted(ensured.final_stage.final_test_id \in completion_set,
                                     ensured.final_stage.final_simulation_id \in completion_set),
        !.level_up_applied = KeepLevelUpApplied(ensured.final_stage),
        !.achievement_title =
            BuildBlockAchievementTitle(
                [content EXCEPT !.target_difficulty = ensured.target_difficulty])]

\* what sync_plan_tracking leaves: the content in the session, whether it
\* commits (changed), the catalog after its flushes and the view it returns
SyncOutcome(content, computed_map, normalized_material_progress, progress, ensured, final_stage) ==
    [content |-> [content EXCEPT !.target_difficulty = ensured.target_difficulty,
                                 !.material_test_map = computed_map,
                                 !.material_progress = normalized_material_progress,
                                 !.final_stage = final_stage],
     changed |-> \/ computed_map # content.material_test_map
                 \/ normalized_material_progress # content.material_progress
                 \/ final_stage # content.final_stage,
     tests |-> ensured.tests,
     view |-> [material_progress |-> normalized_material_progress,
               progress |-> progress,
               final_stage |-> final_stage,
               block_achievements |-> content.block_achievements]]

\* sync_plan_tracking from the aggregate progress on: the final stage, the
\* comparison with the stored content and the result
SyncFromProgress(plan, evts, computed_map, normalized_material_progress, progress, ensured) ==
    SyncOutcome(plan.content, computed_map, normalized_material_progress, progress, ensured,
                SyncedFinalStage(
                    plan.content, ensured, progress,
                    GetCompletionTestIds(evts, {ensured.final_stage.final_test_id,
                                                ensured.final_stage.final_simulation_id},
                                         plan.generated_at, NoTime)))

\* sync_plan_tracking from the normalized entries on
SyncFromEntries(plan, evts, computed_map, normalized_material_progress, ensured) ==
    SyncFromProgress(plan, evts, computed_map, normalized_material_progress,
                     ComputeComponentsProgress(plan.content.tasks, plan.content.materials,
                                               normalized_material_progress),
                     ensured)

\* sync_plan_tracking from the computed bindings on
SyncFromMap(plan, evts, now, computed_map, ensured) ==
    SyncFromEntries(plan, evts, computed_map,
                    NormalizedMaterialProgress(plan.content, computed_map,
                                               CompletedTestIds(plan, computed_map, evts), now),
                    ensured)

\* sync_plan_tracking on a loaded plan row
SyncPlanTracking(plan, testlist, evts, now) ==
    SyncFromMap(plan, evts, now, ComputedMap(plan, RegularTests(testlist), evts),
                EnsureFinalStageTests(plan.content, testlist))

-----------------------------------------------------------------------------
(* Profile: difficulty, weaknesses, level-up *)

\* display names of the skills, in the declaration order of _identify_weaknesses
WeaknessOrder == <<"time_management", "critical_thinking", "communication",
                   "emotional_intelligence", "leadership">>

WeaknessName(skill) ==
    CASE skill = "time_management" -> "Time management (ru)"
      [] skill = "critical_thinking" -> "Critical thinking (ru)"
      [] skill = "communication" -> "Communication (ru)"
      [] skill = "emotional_intelligence" -> "Emotional intelligence (ru)"
      [] OTHER -> "Leadership (ru)"

\* _weakness_to_skill.  Every needle is a mis-decoded Cyrillic stem with capital
\* letters, searched in the lowercased weakness: no string contains one, so the
\* function returns None for every weakness.
WeaknessToSkill(weakness) == "none"

\* faulty variant of IdentifyWeaknesses: the first three skills as declared
IdentifyFirstThree(prof) == [k \in 1..3 |-> WeaknessName(WeaknessOrder[k])]

\* _identify_weaknesses: sorted() is stable, so ties keep the declaration order
IdentifyWeaknesses(prof) ==
    LET Before(i, j) == \/ prof[WeaknessOrder[i]] < prof[WeaknessOrder[j]]
                        \/ (prof[WeaknessOrder[i]] = prof[WeaknessOrder[j]] /\ i < j)
        rank(i) == Cardinality({j \in 1..Len(WeaknessOrder) : Before(j, i)}) + 1
        sorted_skills == [k \in 1..Len(WeaknessOrder) |->
                            WeaknessOrder[CHOOSE i \in 1..Len(WeaknessOrder) : rank(i) = k]]
    IN [k \in 1..3 |-> WeaknessName(sorted_skills[k])]

ScoreSum(prof) ==
    prof["communication"] + prof["emotional_intelligence"] + prof["critical_thinking"]
    + prof["time_management"] + prof["leadership"]

\* faulty variant of ResolveTargetDifficulty: the bounds are compared with >
ResolveStrictly(prof) ==
    IF ScoreSum(prof) > 70 * 5 THEN "advanced"
    ELSE IF ScoreSum(prof) > 40 * 5 THEN "intermediate"
    ELSE "beginner"

\* _resolve_target_difficulty: avg >= 70, avg >= 40 with avg = sum / 5.0
ResolveTargetDifficulty(prof) ==
    IF ScoreSum(prof) >= 70 * 5 THEN "advanced"
    ELSE IF ScoreSum(prof) >= 40 * 5 THEN "intermediate"
    ELSE "beginner"

\* one score of _apply_final_level_up
\* faulty variant of RaisedScore: the step without the floor
RaisedByStepOnly(score, floor) ==
    IF score + LevelUpStep <= 100 THEN score + LevelUpStep ELSE 100

RaisedScore(score, floor) ==
    LET raised == IF score + LevelUpStep >= floor THEN score + LevelUpStep ELSE floor
    IN IF raised <= 100 THEN raised ELSE 100

\* faulty variant of ApplyFinalLevelUp: the scores are left as they are
ApplyNoLevelUp(prof, target_difficulty) == prof

\* _apply_final_level_up
ApplyFinalLevelUp(prof, target_difficulty) ==
    [s \in SkillSet |-> RaisedScore(prof[s], NextLevelFloorForDifficulty(target_difficulty))]

-----------------------------------------------------------------------------
(* Curated material selector *)

\* _curated_material_library, with _material_domain applied to each url
CuratedMaterialLibrary == <<
    [id |-> "ru_4brain_comm_communication", type |-> "article", skill |-> "communication", domain |-> "4brain.ru"],
    [id |-> "ru_4brain_comm_nonverbal", type |-> "article", skill |-> "communication", domain |-> "4brain.ru"],
    [id |-> "ru_4brain_comm_listening", type |-> "article", skill |-> "communication", domain |-> "4brain.ru"],
    [id |-> "ru_4brain_comm_negotiation", type |-> "article", skill |-> "communication", domain |-> "4brain.ru"],
    [id |-> "ru_4brain_comm_rhetoric", type |-> "article", skill |-> "communication", domain |-> "4brain.ru"],
    [id |-> "ru_stepik_comm_effective", type |-> "course", skill |-> "communication", domain |-> "stepik.org"],
    [id |-> "ru_stepik_comm_business", type |-> "course", skill |-> "communication", domain |-> "stepik.org"],
    [id |-> "ru_openedu_teamwork", type |-> "course", skill |-> "communication", domain |-> "openedu.ru"],
    [id |-> "ru_4brain_ei_base", type |-> "article", skill |-> "emotional_intelligence", domain |-> "4brain.ru"],
    [id |-> "ru_4brain_ei_article", type |-> "article", skill |-> "emotional_intelligence", domain |-> "4brain.ru"],
    [id |-> "ru_stepik_ei", type |-> "course", skill |-> "emotional_intelligence", domain |-> "stepik.org"],
    [id |-> "ru_4brain_ct_base", type |-> "article", skill |-> "critical_thinking", domain |-> "4brain.ru"],
    [id |-> "ru_4brain_ct_skills", type |-> "article", skill |-> "critical_thinking", domain |-> "4brain.ru"],
    [id |-> "ru_stepik_ct", type |-> "course", skill |-> "critical_thinking", domain |-> "stepik.org"],
    [id |-> "ru_postnauka_ct_video", type |-> "video", skill |-> "critical_thinking", domain |-> "postnauka.ru"],
    [id |-> "ru_4brain_tm_base", type |-> "article", skill |-> "time_management", domain |-> "4brain.ru"],
    [id |-> "ru_4brain_tm_basics", type |-> "article", skill |-> "time_management", domain |-> "4brain.ru"],
    [id |-> "ru_4brain_tm_psy", type |-> "article", skill |-> "time_management", domain |-> "4brain.ru"],
    [id |-> "ru_openedu_tm_course", type |-> "course", skill |-> "time_management", domain |-> "openedu.ru"],
    [id |-> "ru_stepik_tm", type |-> "course", skill |-> "time_management", domain |-> "stepik.org"],
    [id |-> "ru_4brain_lead_base", type |-> "article", skill |-> "leadership", domain |-> "4brain.ru"],
    [id |-> "ru_4brain_lead_course", type |-> "article", skill |-> "leadership", domain |-> "4brain.ru"],
    [id |-> "ru_4brain_lead_practice", type |-> "article", skill |-> "leadership", domain |-> "4brain.ru"],
    [id |-> "ru_openedu_lead_course", type |-> "course", skill |-> "leadership", domain |-> "openedu.ru"],
    [id |-> "ru_stepik_lead_team", type |-> "course", skill |-> "leadership", domain |-> "stepik.org"]
>>

CuratedSkillOrder == <<"communication", "emotional_intelligence", "critical_thinking",
                       "time_management", "leadership">>

\* _extract_previous_material_ids
ExtractPreviousMaterialIds(previous_plans) ==
    UNION {{previous_plans[i].content.materials[j].id :
                j \in 1..Len(previous_plans[i].content.materials)} :
           i \in 1..Len(previous_plans)}

\* skill_order of _select_curated_materials: the weaknesses' skills, then the rest
CuratedSkillPriority(weaknesses) ==
    LET AddNew(order, skill) ==
            IF skill # "none" /\ skill \notin SeqToSet(order) THEN Append(order, skill) ELSE order
        fromWeak[i \in 0..Len(weaknesses)] ==
            IF i = 0 THEN <<>>
            ELSE LET before == fromWeak[i - 1]
                 IN AddNew(before, WeaknessToSkill(weaknesses[i]))
        base == fromWeak[Len(weaknesses)]
        withRest[i \in 0..Len(CuratedSkillOrder)] ==
            IF i = 0 THEN base
            ELSE LET before == withRest[i - 1]
                 IN AddNew(before, CuratedSkillOrder[i])
    IN withRest[Len(CuratedSkillOrder)]

DomainCount(picked, domain) ==
    Cardinality({i \in 1..Len(picked) : picked[i].domain = domain})

\* faulty variant of CanTake: the ids of the previous plans are not excluded
CanTakeUsed(candidate, picked, used_ids, ignore_domain_limit) ==
    /\ candidate.id \notin {picked[i].id : i \in 1..Len(picked)}
    /\ candidate.domain # ""
    /\ (ignore_domain_limit \/ DomainCount(picked, candidate.domain) < MaxPerDomain)

\* _can_take of _select_curated_materials
CanTake(candidate, picked, used_ids, ignore_domain_limit) ==
    /\ candidate.id \notin used_ids
    /\ candidate.id \notin {picked[i].id : i \in 1..Len(picked)}
    /\ candidate.domain # ""
    /\ (ignore_domain_limit \/ DomainCount(picked, candidate.domain) < MaxPerDomain)

\* one pass "for m in candidates: if len(picked) >= limit: break;
\* if _can_take(m): _take(m)".  A candidate _can_take refuses stays refused
\* while picked grows, so the pass takes, again and again, the first candidate
\* it can take, until the limit is reached or none is left.
TakePass(picked0, candidates, used_ids, ignore_domain_limit, limit) ==
    LET take[k \in 0..limit] ==
            IF k = 0 THEN picked0
            ELSE LET before == take[k - 1]
                     fits == {i \in 1..Len(candidates) :
                                CanTake(candidates[i], before, used_ids, ignore_domain_limit)}
                 IN IF Len(before) < limit /\ fits # {}
                    THEN Append(before, candidates[Min(fits)])
                    ELSE before
    IN IF Len(picked0) >= limit THEN picked0 ELSE take[limit]

\* the type mix step of _select_curated_materials for one missing type
EnsureType(picked, type, used_ids, limit) ==
    LET fits == {i \in 1..Len(CuratedMaterialLibrary) :
                    /\ CuratedMaterialLibrary[i].type = type
                    /\ CanTake(CuratedMaterialLibrary[i], picked, used_ids, FALSE)}
        articles == {i \in 1..Len(picked) : picked[i].type = "article"}
    IN IF fits = {} THEN picked
       ELSE LET replacement == CuratedMaterialLibrary[Min(fits)]
            IN IF Len(picked) < limit THEN Append(picked, replacement)
               ELSE IF articles = {} THEN picked
               ELSE [picked EXCEPT ![Max(articles)] = replacement]

\* the first loop of _select_curated_materials: skill by skill in priority order
PickedBySkill(skill_order, used_ids, limit) ==
    LET bySkill[i \in 0..Len(skill_order)] ==
            IF i = 0 THEN <<>>
            ELSE TakePass(bySkill[i - 1],
                          SelectSeq(CuratedMaterialLibrary,
                                    LAMBDA m : m.skill = skill_order[i]),
                          used_ids, FALSE, limit)
    IN bySkill[Len(skill_order)]

\* the three loops: by skill, the whole library, the whole library without the
\* domain limit
PickedInThreePasses(weaknesses, used_ids, limit) ==
    TakePass(TakePass(PickedBySkill(CuratedSkillPriority(weaknesses), used_ids, limit),
                      CuratedMaterialLibrary, used_ids, FALSE, limit),
             CuratedMaterialLibrary, used_ids, TRUE, limit)

\* the type mix step for one type of need_types
EnsureIfMissing(picked, type, picked_types, used_ids, limit) ==
    IF type \in picked_types THEN picked ELSE EnsureType(picked, type, used_ids, limit)

\* need_types is computed once, from the materials the three loops picked
WithNeededTypes(picked, used_ids, limit) ==
    EnsureIfMissing(
        EnsureIfMissing(picked, "course", {picked[i].type : i \in 1..Len(picked)},
                        used_ids, limit),
        "video", {picked[i].type : i \in 1..Len(picked)}, used_ids, limit)

\* the MaterialItem list returned: picked[:limit]
MaterialItems(picked, target_difficulty, limit) ==
    [i \in 1..(IF Len(picked) < limit THEN Len(picked) ELSE limit) |->
        [id |-> picked[i].id, skill |-> picked[i].skill, type |-> picked[i].type,
         domain |-> picked[i].domain, difficulty |-> target_difficulty]]

\* _select_curated_materials, given the ids of the previous plans' materials
SelectCuratedFrom(weaknesses, target_difficulty, used_ids, limit) ==
    MaterialItems(WithNeededTypes(PickedInThreePasses(weaknesses, used_ids, limit),
                                  used_ids, limit),
                  target_difficulty, limit)

\* _select_curated_materials
SelectCuratedMaterials(weaknesses, target_difficulty, previous_plans, limit) ==
    SelectCuratedFrom(weaknesses, target_difficulty,
                      ExtractPreviousMaterialIds(previous_plans), limit)

-----------------------------------------------------------------------------
(* Plans.  A row of development_plans is [id, is_archived, generated_at,     *)
(* content]; content is the JSON document                                    *)
(*   [materials, tasks, target_difficulty, block_achievements,               *)
(*    material_test_map, material_progress, final_stage]                     *)
(* where an absent material_test_map / material_progress is the empty map    *)
(* and an absent final_stage is NoFinalStage.  An achievement is             *)
(* [id, title, achieved_at] with id = <<"block", plan id, difficulty>>.      *)

\* faulty variant of BootstrapTasks: the fallback content has no tasks
NoBootstrapTasks == <<>>

\* the fallback content of _generate_new_plan when the LLM call fails
BootstrapTasks ==
    <<[id |-> "task_reflect_1", status |-> "pending", completed_at |-> NoTime],
      [id |-> "task_ei_1", status |-> "pending", completed_at |-> NoTime],
      [id |-> "task_ct_1", status |-> "pending", completed_at |-> NoTime]>>

\* a reply of llm_service.generate_development_plan: its task list
LlmTasks == <<[id |-> "task_llm_1", status |-> "pending", completed_at |-> NoTime]>>

\* the rows a SELECT ... WHERE is_archived == False returns
ActivePlans(planlist) == {i \in 1..Len(planlist) : ~planlist[i].is_archived}

\* get_active_plan: the row scalar_one_or_none() returns (0 for None); it
\* raises MultipleResultsFound when more than one row is active
GetActivePlan(planlist) ==
    IF ActivePlans(planlist) = {} THEN 0 ELSE Min(ActivePlans(planlist))

\* faulty variant of ArchiveActivePlan: the active row is left as it is
ArchiveNothing(planlist) == planlist

\* _archive_active_plan
ArchiveActivePlan(planlist) ==
    [i \in 1..Len(planlist) |->
        IF i = GetActivePlan(planlist) THEN [planlist[i] EXCEPT !.is_archived = TRUE]
        ELSE planlist[i]]

\* SELECT ... ORDER BY generated_at DESC LIMIT n (ties: the later row first)
LatestPlans(planlist, n) ==
    LET Newer(i, j) == \/ planlist[i].generated_at > planlist[j].generated_at
                       \/ (planlist[i].generated_at = planlist[j].generated_at /\ i > j)
        rank(i) == Cardinality({j \in 1..Len(planlist) : Newer(j, i)}) + 1
    IN [k \in 1..Min({n, Len(planlist)}) |->
            planlist[CHOOSE i \in 1..Len(planlist) : rank(i) = k]]

\* faulty variant of PlanAchievements: the final_stage record is ignored
PlanListOnly(plan) == plan.content.block_achievements

\* the achievements one plan contributes to _collect_block_achievements
PlanAchievements(plan) ==
    LET content == plan.content
        final_stage == content.final_stage
    IN IF final_stage.present /\ final_stage.level_up_applied
          /\ final_stage.achievement_title # "none"
       THEN Append(content.block_achievements,
                   [id |-> <<"block", plan.id, content.target_difficulty>>,
                    title |-> final_stage.achievement_title,
                    achieved_at |-> final_stage.completed_at])
       ELSE content.block_achievements

\* merged.sort(key=_sort_key, reverse=True): stable, newest first, None as 0
SortAchievements(merged) ==
    LET key(i) == IF merged[i].achieved_at = NoTime THEN 0 ELSE merged[i].achieved_at
        Before(i, j) == key(i) > key(j) \/ (key(i) = key(j) /\ i < j)
        rank(i) == Cardinality({j \in 1..Len(merged) : Before(j, i)}) + 1
    IN [k \in 1..Len(merged) |-> merged[CHOOSE i \in 1..Len(merged) : rank(i) = k]]

\* faulty variant of CollectBlockAchievements: items are not compared by id
CollectWithoutDedup(planlist) ==
    LET all[i \in 0..Len(planlist)] ==
            IF i = 0 THEN <<>> ELSE all[i - 1] \o PlanAchievements(planlist[i])
    IN SortAchievements(all[Len(planlist)])

\* faulty variant of CollectBlockAchievements: the history is not carried over
CollectNothing(planlist) == <<>>

\* _collect_block_achievements: the first item of every id, then the sort
CollectBlockAchievements(planlist) ==
    LET all[i \in 0..Len(planlist)] ==
            IF i = 0 THEN <<>>
            ELSE LET before == all[i - 1]
                 IN before \o PlanAchievements(planlist[i])
        items == all[Len(planlist)]
        merged == SelectSeq([i \in 1..Len(items) |-> [item |-> items[i], pos |-> i]],
                            LAMBDA x : \A j \in 1..(x.pos - 1) : items[j].id # x.item.id)
    IN SortAchievements([i \in 1..Len(merged) |-> merged[i].item])

\* _generate_new_plan after _archive_active_plan: the content built from the
\* profile and the earlier plans, and the INSERT.  tasks is the task list of
\* the LLM reply or of the fallback content.
InsertNewPlan(archived, prof, tasks, now) ==
    LET target_difficulty == ResolveTargetDifficulty(prof)
        content ==
            [materials |-> SelectCuratedMaterials(IdentifyWeaknesses(prof), target_difficulty,
                                                  LatestPlans(archived, 3), MaterialLimit),
             tasks |-> tasks,
             target_difficulty |-> target_difficulty,
             block_achievements |-> CollectBlockAchievements(LatestPlans(archived, 100)),
             material_test_map |-> EmptyMap,
             material_progress |-> EmptyMap,
             final_stage |-> NoFinalStage]
    IN Append(archived, [id |-> Len(archived) + 1, is_archived |-> FALSE,
                         generated_at |-> now, content |-> content])

\* _generate_new_plan in one transaction nothing overlaps: the table after the
\* archive and the INSERT
GenerateNewPlan(planlist, prof, tasks, now) ==
    InsertNewPlan(ArchiveActivePlan(planlist), prof, tasks, now)

\* faulty variant of ShouldRegeneratePlan: the difficulties are compared before
\* the level_up_applied check
RegenerateOnDifficultyChange(plan, prof) ==
    \/ plan.content.final_stage.present /\ plan.content.final_stage.level_up_applied
    \/ NormalizeDifficulty(plan.content.target_difficulty) # ResolveTargetDifficulty(prof)

\* _should_regenerate_plan: False until the level-up is applied; after it both
\* branches (difficulty changed or not) return True
ShouldRegeneratePlan(plan, prof) ==
    plan.content.final_stage.present /\ plan.content.final_stage.level_up_applied

\* the content mark_task_completed commits (the first task with the id)
MarkTaskContent(content, task_id, now) ==
    LET hits == {i \in 1..Len(content.tasks) : content.tasks[i].id = task_id}
    IN [content EXCEPT !.tasks[Min(hits)] =
            [@ EXCEPT !.status = "completed", !.completed_at = now]]

\* the content mark_material_article_open commits; setdefault keeps an
\* article_opened_at key that exists, whatever its value
\* faulty variant of MarkMaterialContent: article_opened_at is assigned, not
\* set by default
MarkMaterialStamped(content, material_id, now) ==
    LET entry == Get(content.material_progress, material_id, NoEntry)
        marked == [entry EXCEPT
                      !.article_opened = TRUE,
                      !.article_opened_at = now,
                      !.percentage = MaterialProgressPercentage(TRUE, entry.test_completed)]
    IN [content EXCEPT !.material_progress = (material_id :> marked) @@ @]

\* the content mark_material_article_open commits
MarkMaterialContent(content, material_id, now) ==
    LET entry == Get(content.material_progress, material_id, NoEntry)
        has_key == entry.full \/ entry.article_opened_at # NoTime
        marked == [entry EXCEPT
                      !.article_opened = TRUE,
                      !.article_opened_at = IF has_key THEN @ ELSE now,
                      !.percentage = MaterialProgressPercentage(TRUE, entry.test_completed)]
    IN [content EXCEPT !.material_progress = (material_id :> marked) @@ @]

BadUrlDomains == {"", "example.com", "en.wikipedia.org", "ted.com", "skillbox.ru"}

\* _looks_bad_material_url, on the domain of the url
LooksBadMaterialUrl(material) == material.domain \in BadUrlDomains

\* _plan_materials_need_diversity_refresh
PlanMaterialsNeedDiversityRefresh(materials) ==
    LET domains == {materials[i].domain : i \in 1..Len(materials)} \ {""}
        types == {materials[i].type : i \in 1..Len(materials)}
    IN \/ materials = <<>>
       \/ (Cardinality(domains) <= 1 /\ Len(materials) >= 3)
       \/ (types = {"article"} /\ Len(materials) >= 3)

\* sanitize_plan_materials_if_needed: does it rewrite the plan
SanitizeNeeded(content) ==
    /\ content.materials # <<>>
    /\ \/ \E i \in 1..Len(content.materials) : LooksBadMaterialUrl(content.materials[i])
       \/ PlanMaterialsNeedDiversityRefresh(content.materials)

\* the content sanitize_plan_materials_if_needed commits for plan i
SanitizeContent(planlist, i, prof) ==
    LET others == SelectSeq(planlist, LAMBDA p : p.id # planlist[i].id)
        target_difficulty == ResolveTargetDifficulty(prof)
    IN [planlist[i].content EXCEPT
            !.materials = SelectCuratedMaterials(IdentifyWeaknesses(prof), target_difficulty,
                                                 LatestPlans(others, 3), MaterialLimit),
            !.target_difficulty = target_difficulty]

\* the content advance_to_next_level commits with the level-up: final_stage
\* is the dictionary sync_plan_tracking returned
LevelUpContent(content, plan_id, final_stage, now) ==
    LET achievement_id == <<"block", plan_id, content.target_difficulty>>
        title == BuildBlockAchievementTitle(content)
        achievements == content.block_achievements
    IN [content EXCEPT
            !.final_stage = [final_stage EXCEPT !.level_up_applied = TRUE,
                                                !.completed_at = now,
                                                !.achievement_title = title],
            !.block_achievements =
                IF \E k \in 1..Len(achievements) : achievements[k].id = achievement_id
                THEN achievements
                ELSE Append(achievements, [id |-> achievement_id, title |-> title,
                                           achieved_at |-> now])]

-----------------------------------------------------------------------------------------------------------------------------------------------------
(* Spec: the calls of one user, one after another.  Each action is one call, *)
(* from its first SELECT to its last COMMIT: the three handlers of           *)
(* api/endpoints/plans.py, the background plan generation and                *)
(* advance_to_next_level.  result is what the call returned: status "ok" or  *)
(* the error it raised, and for a tracking pass its changed flag and view.   *)

NoView ==
    [material_progress |-> EmptyMap,
     progress |-> [completed |-> 0, total |-> 0, percentage |-> 0],
     final_stage |-> NoFinalStage,
     block_achievements |-> <<>>]

NoResult ==
    [op |-> "none", status |-> "none", changed |-> FALSE, already_applied |-> FALSE,
     plan_id |-> NoId, new_plan_id |-> NoId, view |-> NoView]

Returned(op, status) == [NoResult EXCEPT !.op = op, !.status = status]

\* the assessment catalog the administrators have set up
InitialCatalogs ==
    {<<RegularTest(1, "quiz", "communication")>>}

\* the profile the analyses have produced (scores are percentages)
InitialProfiles ==
    {[s \in SkillSet |-> CASE s = "communication" -> 20
                           [] s = "emotional_intelligence" -> 30
                           [] s = "critical_thinking" -> 70
                           [] s = "time_management" -> 95
                           [] OTHER -> 40],
     [s \in SkillSet |-> CASE s = "communication" -> 20
                           [] s = "emotional_intelligence" -> 30
                           [] s = "critical_thinking" -> 35
                           [] s = "time_management" -> 50
                           [] OTHER -> 40]}

NoAssignInput ==
    [materials |-> <<>>, tests |-> <<>>, existing_map |-> EmptyMap, completed |-> {}]
NoSessions == <<>>

Init ==
    /\ plans = <<>>
    /\ tests \in InitialCatalogs
    /\ events = {}
    /\ profile \in InitialProfiles
    /\ history = 0
    /\ analyses = 0
    /\ clock = 0
    /\ result = NoResult
    /\ ain = NoAssignInput
    /\ aout = <<>>
    /\ sess = NoSessions

\* an analysis result is stored for the user
AddAnalysis ==
    /\ analyses < MIN_ANALYSES_FOR_PLAN
    /\ analyses' = analyses + 1
    /\ result' = Returned("add_analysis", "ok")
    /\ UNCHANGED <<plans, tests, events, profile, history, clock, ain, aout, sess>>

\* the user completes an assessment: a user_test_results / case_solutions row
CompleteTest(test_id) ==
    /\ Cardinality(events) < MaxEvents
    /\ <<test_id, clock>> \notin events
    /\ events' = events \cup {<<test_id, clock>>}
    /\ result' = Returned("complete_test", "ok")
    /\ UNCHANGED <<plans, tests, profile, history, analyses, clock, ain, aout, sess>>

\* check_and_generate_plan and its caller's commit (tasks/background_tasks.py)
CheckAndGeneratePlan(over_7_days, llm_ok) ==
    LET active == GetActivePlan(plans)
        should_generate ==
            /\ analyses >= MIN_ANALYSES_FOR_PLAN
            /\ \/ active = 0
               \/ over_7_days
               \/ ShouldRegeneratePlan(plans[active], profile)
    IN IF should_generate THEN
            /\ Len(plans) < MaxPlans
            /\ \E planlist \in {GenerateNewPlan(plans, profile,
                                    IF llm_ok THEN LlmTasks ELSE BootstrapTasks, clock + 1)} :
                /\ plans' = planlist
                /\ result' = [Returned("check_and_generate_plan", "ok") EXCEPT
                                 !.new_plan_id = planlist[Len(planlist)].id]
            /\ clock' = clock + 1
            /\ UNCHANGED <<tests, events, profile, history, analyses, ain, aout, sess>>
       ELSE
            /\ result' = Returned("check_and_generate_plan", "none")
            /\ UNCHANGED <<plans, tests, events, profile, history, analyses, clock,
                           ain, aout, sess>>

\* plans with row i's content replaced
WithContent(planlist, i, content) == [planlist EXCEPT ![i].content = content]

\* what a tracking pass with outcome r leaves of row i: the table and the
\* catalog after its commit, the catalog as flushed, the result of the call
TrackedOutcome(op, planlist, i, testlist, r) ==
    [plans |-> IF r.changed THEN WithContent(planlist, i, r.content) ELSE planlist,
     tests |-> IF r.changed THEN r.tests ELSE testlist,
     flushed |-> r.tests,
     result |-> [Returned(op, "ok") EXCEPT
                    !.changed = r.changed, !.plan_id = planlist[i].id, !.view = r.view]]

\* a tracking pass on row i and its commit
Tracked(op, planlist, i, testlist, evts, now) ==
    TrackedOutcome(op, planlist, i, testlist,
                   SyncPlanTracking(planlist[i], testlist, evts, now))

\* GET /me/active: sanitize_plan_materials_if_needed, then sync_plan_tracking
ReadActivePlan ==
    LET active == GetActivePlan(plans)
    IN IF active = 0 THEN
            /\ result' = Returned("get_active_plan", "none")
            /\ UNCHANGED <<plans, tests, events, profile, history, analyses, clock,
                           ain, aout, sess>>
       ELSE
            /\ \E t \in {Tracked("get_active_plan",
                                 IF SanitizeNeeded(plans[active].content)
                                 THEN WithContent(plans, active,
                                                  SanitizeContent(plans, active, profile))
                                 ELSE plans,
                                 active, tests, events, clock)} :
                    plans' = t.plans /\ tests' = t.tests /\ result' = t.result
            /\ UNCHANGED <<events, profile, history, analyses, clock, ain, aout, sess>>

TaskIds == {BootstrapTasks[i].id : i \in 1..Len(BootstrapTasks)}
           \cup {LlmTasks[i].id : i \in 1..Len(LlmTasks)}

\* POST /me/tasks/{task_id}/complete: mark_task_completed, then sync_plan_tracking
CompleteTask(task_id) ==
    LET active == GetActivePlan(plans)
        found == \E k \in 1..Len(plans[active].content.tasks) :
                    plans[active].content.tasks[k].id = task_id
        marked == WithContent(plans, active,
                              MarkTaskContent(plans[active].content, task_id, clock))
    IN IF active = 0 \/ ~found THEN
            /\ result' = Returned("complete_task",
                                  IF active = 0 THEN "no_active_plan" ELSE "task_not_found")
            /\ UNCHANGED <<plans, tests, events, profile, history, analyses, clock,
                           ain, aout, sess>>
       ELSE
            /\ \E t \in {Tracked("complete_task", marked, active, tests, events, clock)} :
                    plans' = t.plans /\ tests' = t.tests /\ result' = t.result
            /\ UNCHANGED <<events, profile, history, analyses, clock, ain, aout, sess>>

\* the material ids a client may send: those of the user's plans and a stray one
MaterialInputs ==
    UNION {{plans[i].content.materials[k].id : k \in 1..Len(plans[i].content.materials)} :
           i \in 1..Len(plans)} \cup {"mat_unknown"}

\* POST /me/materials/{material_id}/article-open: mark_material_article_open,
\* then sync_plan_tracking
ArticleOpen(material_id) ==
    LET active == GetActivePlan(plans)
        found == \E k \in 1..Len(plans[active].content.materials) :
                    plans[active].content.materials[k].id = material_id
        marked == WithContent(plans, active,
                              MarkMaterialContent(plans[active].content, material_id, clock))
    IN IF active = 0 \/ ~found THEN
            /\ result' = Returned("article_open",
                                  IF active = 0 THEN "no_active_plan" ELSE "material_not_found")
            /\ UNCHANGED <<plans, tests, events, profile, history, analyses, clock,
                           ain, aout, sess>>
       ELSE
            /\ \E t \in {Tracked("article_open", marked, active, tests, events, clock)} :
                    plans' = t.plans /\ tests' = t.tests /\ result' = t.result
            /\ UNCHANGED <<events, profile, history, analyses, clock, ain, aout, sess>>

\* faulty variant of LevelUpWasApplied: the flag is not consulted
LevelUpNeverSeen(final_stage) == FALSE

\* level_up_was_applied of advance_to_next_level
LevelUpWasApplied(final_stage) == final_stage.level_up_applied

\* the part of advance_to_next_level after its two checks: the level-up and
\* its commit unless already applied, then _generate_new_plan and the second
\* commit.  generation_ok = FALSE is _generate_new_plan raising (a failed
\* statement): the session rolls its archive back and the error propagates.
LevelUpAndGenerate(t, active, generation_ok, llm_ok) ==
    \E level_up_was_applied \in {LevelUpWasApplied(t.result.view.final_stage)} :
    \E raised \in {IF level_up_was_applied THEN profile
                   ELSE ApplyFinalLevelUp(profile, t.plans[active].content.target_difficulty)} :
    \E levelled \in {IF level_up_was_applied THEN t.plans
                     ELSE WithContent(t.plans, active,
                                      LevelUpContent(t.plans[active].content, t.plans[active].id,
                                                     t.result.view.final_stage, clock))} :
       /\ profile' = raised
       /\ history' = IF level_up_was_applied THEN history ELSE history + 1
       /\ tests' = IF level_up_was_applied /\ ~generation_ok THEN t.tests ELSE t.flushed
       /\ plans' = IF generation_ok
                   THEN GenerateNewPlan(levelled, raised,
                                        IF llm_ok THEN LlmTasks ELSE BootstrapTasks, clock + 1)
                   ELSE levelled
       /\ clock' = IF generation_ok THEN clock + 1 ELSE clock
       /\ result' = [t.result EXCEPT
                        !.status = IF generation_ok THEN "ok" ELSE "generation_failed",
                        !.already_applied = level_up_was_applied,
                        !.new_plan_id = IF generation_ok THEN Len(levelled) + 1 ELSE NoId]

\* advance_to_next_level
AdvanceToNextLevel ==
    LET active == GetActivePlan(plans)
    IN IF active = 0 THEN
            /\ result' = Returned("advance_to_next_level", "no_active_plan")
            /\ UNCHANGED <<plans, tests, events, profile, history, analyses, clock,
                           ain, aout, sess>>
       ELSE \E t \in {Tracked("advance_to_next_level", plans, active, tests, events, clock)} :
            IF ~t.result.view.final_stage.unlocked \/ ~t.result.view.final_stage.completed
            THEN
                /\ plans' = t.plans
                /\ tests' = t.tests
                /\ result' = [t.result EXCEPT
                                 !.status = IF ~t.result.view.final_stage.unlocked
                                            THEN "not_unlocked" ELSE "not_completed"]
                /\ UNCHANGED <<events, profile, history, analyses, clock, ain, aout, sess>>
            ELSE
                /\ Len(plans) < MaxPlans
                /\ \E generation_ok \in BOOLEAN, llm_ok \in BOOLEAN :
                        LevelUpAndGenerate(t, active, generation_ok, llm_ok)
                /\ UNCHANGED <<events, analyses, ain, aout, sess>>

\* days_since_generation > 7 of check_and_generate_plan: within one behaviour
\* no plan grows older than a week
Over7Days == {FALSE}

Next ==
    \/ AddAnalysis
    \/ \E test_id \in 1..Len(tests) : CompleteTest(test_id)
    \/ \E over_7_days \in Over7Days, llm_ok \in BOOLEAN :
            CheckAndGeneratePlan(over_7_days, llm_ok)
    \/ ReadActivePlan
    \/ \E task_id \in TaskIds : CompleteTask(task_id)
    \/ \E material_id \in MaterialInputs : ArticleOpen(material_id)
    \/ AdvanceToNextLevel

Spec == Init /\ [][Next]_vars

-----------------------------------------------------------------------------
(* SpecAssign: _assign_tests_to_materials and sync_plan_tracking applied,    *)
(* pass after pass, to one plan.  Its materials, the catalog, the bindings   *)
(* stored so far and the assessments completed before the plan are drawn     *)
(* from bounded sets; nothing else happens between the passes.               *)

\* the materials of the drawn plan: distinct entries of the curated library
AssignMaterialPool ==
    {m \in SeqToSet(CuratedMaterialLibrary) :
        m.id \in {"ru_4brain_comm_communication", "ru_stepik_comm_effective",
                  "ru_4brain_lead_base"}}

AssignMaterialLists ==
    UNION {{ms \in [1..n -> AssignMaterialPool] :
                \A i, j \in 1..n : i # j => ms[i] # ms[j]} : n \in 1..MaxAssignMaterials}

\* catalogs of n quizzes and cases, each about communication or leadership
AssignCatalogs ==
    UNION {{[i \in 1..n |-> RegularTest(i, IF i = 2 THEN "case" ELSE "quiz", sk[i])] :
                sk \in [1..n -> {"communication", "leadership"}]} : n \in 0..MaxAssignTests}

\* stored bindings: none, or every material bound to one assessment
AssignExistingMaps(materials, testlist) ==
    {EmptyMap} \cup {[id \in {materials[i].id : i \in 1..Len(materials)} |-> k] :
                        k \in 1..Len(testlist)}

AssignInputs ==
    UNION {UNION {{[materials |-> ms, tests |-> ts, existing_map |-> em, completed |-> done] :
                        em \in AssignExistingMaps(ms, ts), done \in SUBSET (1..Len(ts))} :
                    ts \in AssignCatalogs} : ms \in AssignMaterialLists}

\* the plan row holding the drawn materials and bindings, generated at time 1
AssignPlan(input) ==
    [id |-> 1, is_archived |-> FALSE, generated_at |-> 1,
     content |-> [materials |-> [i \in 1..Len(input.materials) |->
                                    [id |-> input.materials[i].id,
                                     skill |-> input.materials[i].skill,
                                     type |-> input.materials[i].type,
                                     domain |-> input.materials[i].domain,
                                     difficulty |-> "beginner"]],
                  tasks |-> <<>>,
                  target_difficulty |-> "beginner",
                  block_achievements |-> <<>>,
                  material_test_map |-> input.existing_map,
                  material_progress |-> EmptyMap,
                  final_stage |-> NoFinalStage]]

InitAssign ==
    /\ ain \in AssignInputs
    /\ aout = <<>>
    /\ plans = <<AssignPlan(ain)>>
    /\ tests = ain.tests
    /\ events = {<<t, 0>> : t \in ain.completed}
    /\ profile = CHOOSE prof \in InitialProfiles : ResolveTargetDifficulty(prof) = "intermediate"
    /\ history = 0
    /\ analyses = MIN_ANALYSES_FOR_PLAN
    /\ clock = 1
    /\ result = NoResult
    /\ sess = NoSessions

\* the bindings the latest pass left
LatestMap == IF aout = <<>> THEN ain.existing_map ELSE aout[Len(aout)]

\* one more call of _assign_tests_to_materials, on the bindings of the last
AssignPass ==
    /\ Len(aout) < MaxAssignPasses
    /\ aout' = Append(aout, AssignTestsToMaterials(ain.materials, ain.tests, LatestMap,
                                                   ain.completed))
    /\ UNCHANGED <<plans, tests, events, profile, history, analyses, clock, result, ain, sess>>

\* one more call of sync_plan_tracking on the plan
SyncPass ==
    /\ \E t \in {Tracked("sync_plan_tracking", plans, 1, tests, events, clock)} :
            plans' = t.plans /\ tests' = t.tests /\ result' = t.result
    /\ UNCHANGED <<events, profile, history, analyses, clock, ain, aout, sess>>

NextAssign == AssignPass \/ SyncPass

SpecAssign == InitAssign /\ [][NextAssign]_vars

-----------------------------------------------------------------------------
(* SpecConc: two requests of one user at the same time, each in its own      *)
(* AsyncSession (db/session.py: expire_on_commit = False; no version column, *)
(* no SELECT ... FOR UPDATE).  A session works on the rows it has loaded and *)
(* a commit writes the whole content document.  A step of a session runs     *)
(* from one COMMIT (or from the start of the call) to the next, so sessions  *)
(* interleave only where none holds a row lock.                              *)

Sessions == {1, 2}

NoContent ==
    [materials |-> <<>>, tasks |-> <<>>, target_difficulty |-> "beginner",
     block_achievements |-> <<>>, material_test_map |-> EmptyMap,
     material_progress |-> EmptyMap, final_stage |-> NoFinalStage]

\* a session that has not started its call
NoSession ==
    [op |-> "none", arg |-> "none", pc |-> "idle", plan_id |-> NoId, content |-> NoContent,
     profile |-> [s \in SkillSet |-> 0], final_stage |-> NoFinalStage, overlap |-> FALSE,
     result |-> NoResult]

\* the profile of the user before the calls
ConcProfile == CHOOSE prof \in InitialProfiles : ResolveTargetDifficulty(prof) = "intermediate"

\* the plan table right after the background generation of the first plan
ConcFreshPlans == GenerateNewPlan(<<>>, ConcProfile, LlmTasks, 1)

\* the database after the first GET /me/active on that plan
ConcSynced ==
    Tracked("get_active_plan", ConcFreshPlans, 1, CHOOSE c \in InitialCatalogs : TRUE, {}, 1)

\* every task of the content completed and every material opened, at time now
MarkEverything(content, now) ==
    LET tasks[i \in 0..Len(content.tasks)] ==
            IF i = 0 THEN content
            ELSE MarkTaskContent(tasks[i - 1], content.tasks[i].id, now)
        all[i \in 0..Len(content.materials)] ==
            IF i = 0 THEN tasks[Len(content.tasks)]
            ELSE MarkMaterialContent(all[i - 1], content.materials[i].id, now)
    IN all[Len(content.materials)]

\* every assessment of a catalog completed at time now
AllCompleted(testlist, now) == {<<testlist[i].id, now>> : i \in 1..Len(testlist)}

\* the database once the user has done everything in the plan and both final
\* items, seen by a tracking pass
ConcDone(synced) ==
    Tracked("get_active_plan",
            WithContent(synced.plans, 1, MarkEverything(synced.plans[1].content, 1)),
            1, synced.tests, AllCompleted(synced.tests, 1), 1)

\* the three databases as rows: plans, catalog, completion events
ConcRows(fresh, synced, done) ==
    {[plans |-> fresh, tests |-> CHOOSE c \in InitialCatalogs : TRUE, events |-> {}],
     [plans |-> synced.plans, tests |-> synced.tests, events |-> {}],
     [plans |-> done.plans, tests |-> done.tests, events |-> AllCompleted(synced.tests, 1)]}

\* the databases the two requests may start from: the new plan before and
\* after its first tracking pass, and the finished plan
ConcDatabases == ConcRows(ConcFreshPlans, ConcSynced, ConcDone(ConcSynced))

InitConc ==
    /\ \E database \in ConcDatabases :
            plans = database.plans /\ tests = database.tests /\ events = database.events
    /\ profile = ConcProfile
    /\ history = 0
    /\ analyses = MIN_ANALYSES_FOR_PLAN
    /\ clock = 1
    /\ result = NoResult
    /\ ain = NoAssignInput
    /\ aout = <<>>
    /\ sess = [s \in Sessions |-> NoSession]

\* the plan row as session s holds it
SessionPlan(s) ==
    [id |-> plans[sess[s].plan_id].id, is_archived |-> FALSE,
     generated_at |-> plans[sess[s].plan_id].generated_at, content |-> sess[s].content]

\* the calls a client may start: op and argument
ConcCalls ==
    {<<"get_active_plan", "none">>, <<"advance_to_next_level", "none">>}
    \cup {<<"complete_task", LlmTasks[i].id>> : i \in 1..Len(LlmTasks)}
    \cup {<<"article_open", plans[1].content.materials[i].id>> :
            i \in 1..Len(plans[1].content.materials)}

\* the start of a call: get_active_plan loads the active plan row into the
\* session (the SELECT of the mark functions returns the same loaded row)
Begin(s, call) ==
    /\ sess[s].pc = "idle"
    /\ GetActivePlan(plans) # 0
    /\ call[1] = "complete_task" =>
            \E k \in 1..Len(plans[GetActivePlan(plans)].content.tasks) :
                plans[GetActivePlan(plans)].content.tasks[k].id = call[2]
    /\ call[1] = "article_open" =>
            \E k \in 1..Len(plans[GetActivePlan(plans)].content.materials) :
                plans[GetActivePlan(plans)].content.materials[k].id = call[2]
    /\ sess' = [sess EXCEPT ![s] =
            [@ EXCEPT !.op = call[1],
                      !.arg = call[2],
                      !.pc = IF call[1] \in {"complete_task", "article_open"} THEN "mark"
                             ELSE IF call[1] = "advance_to_next_level" THEN "profile"
                             ELSE "sync",
                      !.plan_id = GetActivePlan(plans),
                      !.content = plans[GetActivePlan(plans)].content,
                      !.overlap = \E o \in Sessions \ {s} :
                                    /\ sess[o].op = "advance_to_next_level"
                                    /\ sess[o].pc \in {"profile", "sync", "level_up"}]]
    /\ UNCHANGED <<plans, tests, events, profile, history, analyses, clock, result, ain, aout>>

\* advance_to_next_level loads the profile row
LoadProfile(s) ==
    /\ sess[s].pc = "profile"
    /\ sess' = [sess EXCEPT ![s] = [@ EXCEPT !.pc = "sync", !.profile = profile]]
    /\ UNCHANGED <<plans, tests, events, profile, history, analyses, clock, result, ain, aout>>

\* mark_task_completed / mark_material_article_open from the loaded content to
\* the commit and the refresh of the row
MarkCommit(s) ==
    /\ sess[s].pc = "mark"
    /\ \E content \in {IF sess[s].op = "complete_task"
                       THEN MarkTaskContent(sess[s].content, sess[s].arg, clock)
                       ELSE MarkMaterialContent(sess[s].content, sess[s].arg, clock)} :
            /\ plans' = WithContent(plans, sess[s].plan_id, content)
            /\ sess' = [sess EXCEPT ![s] = [@ EXCEPT !.pc = "sync", !.content = content]]
    /\ UNCHANGED <<tests, events, profile, history, analyses, clock, result, ain, aout>>

\* sync_plan_tracking on the row the session holds, its commit when it found a
\* change, and what the caller does up to its next statement: the handlers
\* return; advance_to_next_level refreshes the row and makes its two checks
SyncCommit(s) ==
    /\ sess[s].pc = "sync"
    /\ \E r \in {SyncPlanTracking(SessionPlan(s), tests, events, clock)} :
        \E stored \in {IF r.changed THEN WithContent(plans, sess[s].plan_id, r.content)
                       ELSE plans} :
            /\ plans' = stored
            /\ tests' = IF r.changed THEN r.tests ELSE tests
            /\ sess' = [sess EXCEPT ![s] =
                    [@ EXCEPT
                        !.content = IF sess[s].op = "advance_to_next_level"
                                    THEN stored[sess[s].plan_id].content
                                    ELSE r.content,
                        !.final_stage = r.view.final_stage,
                        !.pc = IF /\ sess[s].op = "advance_to_next_level"
                                  /\ r.view.final_stage.unlocked
                                  /\ r.view.final_stage.completed
                               THEN "level_up" ELSE "done",
                        !.result =
                            [Returned(sess[s].op,
                                      IF sess[s].op # "advance_to_next_level" THEN "ok"
                                      ELSE IF ~r.view.final_stage.unlocked THEN "not_unlocked"
                                      ELSE IF ~r.view.final_stage.completed THEN "not_completed"
                                      ELSE "none")
                             EXCEPT !.changed = r.changed,
                                    !.plan_id = sess[s].plan_id,
                                    !.view = r.view]]]
    /\ UNCHANGED <<events, profile, history, analyses, clock, result, ain, aout>>

\* the level-up of advance_to_next_level, from the final stage the tracking
\* pass returned, the refreshed content and the profile as loaded, to its
\* commit and the two refreshes; skipped when that final stage says applied
LevelUp(s) ==
    /\ sess[s].pc = "level_up"
    /\ IF sess[s].final_stage.level_up_applied
       THEN /\ sess' = [sess EXCEPT ![s] =
                    [@ EXCEPT !.pc = "generate", !.result.already_applied = TRUE]]
            /\ UNCHANGED <<plans, profile, history>>
       ELSE \E content \in {LevelUpContent(sess[s].content, sess[s].plan_id,
                                           sess[s].final_stage, clock)} :
            /\ profile' = ApplyFinalLevelUp(sess[s].profile, sess[s].content.target_difficulty)
            /\ history' = history + 1
            /\ plans' = WithContent(plans, sess[s].plan_id, content)
            /\ sess' = [sess EXCEPT ![s] =
                    [@ EXCEPT !.pc = "generate", !.content = content, !.profile = profile',
                              !.result.already_applied = FALSE]]
    /\ UNCHANGED <<tests, events, analyses, clock, result, ain, aout>>

\* _generate_new_plan and the last commit of advance_to_next_level
Generate(s, llm_ok) ==
    /\ sess[s].pc = "generate"
    /\ Len(plans) < MaxConcPlans
    /\ plans' = GenerateNewPlan(plans, sess[s].profile,
                                IF llm_ok THEN LlmTasks ELSE BootstrapTasks, clock + 1)
    /\ clock' = clock + 1
    /\ sess' = [sess EXCEPT ![s] =
            [@ EXCEPT !.pc = "done", !.result.status = "ok",
                      !.result.new_plan_id = Len(plans) + 1]]
    /\ UNCHANGED <<tests, events, profile, history, analyses, result, ain, aout>>

NextConc ==
    \E s \in Sessions :
        \/ \E call \in ConcCalls : Begin(s, call)
        \/ LoadProfile(s)
        \/ MarkCommit(s)
        \/ SyncCommit(s)
        \/ LevelUp(s)
        \/ \E llm_ok \in BOOLEAN : Generate(s, llm_ok)

SpecConc == InitConc /\ [][NextConc]_vars

-----------------------------------------------------------------------------
(* SpecLevel: advance_to_next_level on a finished block.  The difficulty     *)
(* stored in the plan and the five scores of the profile are drawn           *)
(* independently (analyses move the profile while a plan is active); the     *)
(* plan is the first plan of the user with everything in it done.            *)

\* the scores drawn: 0, 37 (37 + 8 is the beginner floor), 80 and 96 (capped)
LevelScores == {0, 37, 80, 96}

LevelProfiles == [SkillSet -> LevelScores]

\* the first plan of the user, generated as a block of difficulty d
LevelFresh(d) ==
    WithContent(ConcFreshPlans, 1, [ConcFreshPlans[1].content EXCEPT !.target_difficulty = d])

\* the database once that plan was read and everything in it was done
LevelDone(d) ==
    ConcDone(Tracked("get_active_plan", LevelFresh(d), 1,
                     CHOOSE c \in InitialCatalogs : TRUE, {}, 1))

InitLevel ==
    /\ \E d \in Difficulties : \E done \in {LevelDone(d)} :
            /\ plans = done.plans
            /\ tests = done.tests
            /\ events = AllCompleted(done.tests, 1)
    /\ profile \in LevelProfiles
    /\ history = 0
    /\ analyses = MIN_ANALYSES_FOR_PLAN
    /\ clock = 1
    /\ result = NoResult
    /\ ain = NoAssignInput
    /\ aout = <<>>
    /\ sess = NoSessions

NextLevel == AdvanceToNextLevel

SpecLevel == InitLevel /\ [][NextLevel]_vars

-----------------------------------------------------------------------------
(* SpecCollect: _collect_block_achievements and _generate_new_plan applied   *)
(* to a plan history drawn from a bounded set.  A block that was levelled up *)
(* by advance_to_next_level has final_stage.level_up_applied and its own     *)
(* entry in block_achievements; a block levelled up before the list existed  *)
(* (legacy) has the final_stage record and no list; a plan generated after   *)
(* level-ups holds entries of earlier blocks.  Plan k is generated at time   *)
(* 2k - 1 and levelled up at time 2k.                                        *)

CollectDifficulties == {"beginner", "intermediate"}

\* the achievement advance_to_next_level records for block k of difficulty d
CollectEntry(k, d) ==
    [id |-> <<"block", k, d>>, title |-> DifficultyRuLabel(d), achieved_at |-> 2 * k]

\* the entries of the blocks in S, newest first
SeededEntries(S, ds) ==
    [r \in 1..Cardinality(S) |->
        LET k == CHOOSE j \in S : Cardinality({i \in S : i > j}) = r - 1
        IN CollectEntry(k, ds[k])]

\* plan row k of a history: difficulty ds[k], levelled up iff applied[k],
\* without a list iff legacy[k], seeded with the entries of the blocks seeds[k]
CollectPlan(k, n, ds, applied, legacy, seeds) ==
    [id |-> k, is_archived |-> k < n, generated_at |-> 2 * k - 1,
     content |-> [NoContent EXCEPT
        !.target_difficulty = ds[k],
        !.block_achievements =
            IF legacy[k] THEN <<>>
            ELSE SeededEntries(seeds[k], ds)
                 \o (IF applied[k] THEN <<CollectEntry(k, ds[k])>> ELSE <<>>),
        !.final_stage =
            IF applied[k]
            THEN [NoFinalStage EXCEPT !.present = TRUE, !.unlocked = TRUE, !.completed = TRUE,
                                      !.final_test_completed = TRUE,
                                      !.final_simulation_completed = TRUE,
                                      !.level_up_applied = TRUE, !.completed_at = 2 * k,
                                      !.achievement_title = DifficultyRuLabel(ds[k])]
            ELSE NoFinalStage]]

\* the histories of n plans
CollectHistoriesOf(n) ==
    {[k \in 1..n |-> CollectPlan(k, n, h.ds, h.applied, h.legacy, h.seeds)] :
        h \in {x \in [ds : [1..n -> CollectDifficulties], applied : [1..n -> BOOLEAN],
                       legacy : [1..n -> BOOLEAN], seeds : [1..n -> SUBSET (1..n)]] :
                 \A k \in 1..n :
                    /\ x.seeds[k] \subseteq {j \in 1..(k - 1) : x.applied[j]}
                    /\ x.legacy[k] => x.seeds[k] = {}}}

CollectHistories == UNION {CollectHistoriesOf(n) : n \in 1..MaxCollectPlans}

InitCollect ==
    /\ plans \in CollectHistories
    /\ tests \in InitialCatalogs
    /\ events = {}
    /\ profile = ConcProfile
    /\ history = 0
    /\ analyses = MIN_ANALYSES_FOR_PLAN
    /\ clock = 2 * MaxCollectPlans + 1
    /\ result = NoResult
    /\ ain = NoAssignInput
    /\ aout = <<>>
    /\ sess = NoSessions

\* _collect_block_achievements on the latest 100 plans of the history
CollectPass ==
    /\ aout = <<>>
    /\ Len(plans) <= MaxCollectPlans
    /\ aout' = <<CollectBlockAchievements(LatestPlans(plans, 100))>>
    /\ UNCHANGED <<plans, tests, events, profile, history, analyses, clock, result, ain, sess>>

\* _generate_new_plan on the history, and the caller's commit
GeneratePass(llm_ok) ==
    /\ Len(plans) <= MaxCollectPlans
    /\ \E planlist \in {GenerateNewPlan(plans, profile,
                            IF llm_ok THEN LlmTasks ELSE BootstrapTasks, clock + 1)} :
        /\ plans' = planlist
        /\ result' = [Returned("check_and_generate_plan", "ok") EXCEPT
                         !.new_plan_id = planlist[Len(planlist)].id]
    /\ clock' = clock + 1
    /\ UNCHANGED <<tests, events, profile, history, analyses, ain, aout, sess>>

NextCollect == CollectPass \/ \E llm_ok \in BOOLEAN : GeneratePass(llm_ok)

SpecCollect == InitCollect /\ [][NextCollect]_vars

-----------------------------------------------------------------------------
(* SpecDrift: an active plan while the analyses keep moving the profile.     *)
(* The behaviour starts with no plan, or with the fourth plan of a user      *)
(* whose plans were generated one after another from the same profile, each  *)
(* with the default limit of seven materials: the fourth selection is left   *)
(* with four articles of one domain.  The analysis task then moves the       *)
(* scores through update_profile; the scores are kept whole numbers, so an   *)
(* update is taken only where the weighted average is one.                   *)

\* the default of the limit argument of _select_curated_materials
DefaultMaterialLimit == 7

\* weight = 0.3 of the analysis task, in tenths
ProfileWeightTenths == 3

\* the profile at generation: every score 30, 50 or 80
DriftProfiles == {[s \in SkillSet |-> a] : a \in {30, 50, 80}}

\* the scores an analysis produces: every score 0 or 100
DriftScores == {[s \in SkillSet |-> b] : b \in {0, 100}}

\* old_score * (1 - weight) + new_score * weight, in tenths of a point
WeightedTenths(old_score, new_score) ==
    (10 - ProfileWeightTenths) * old_score + ProfileWeightTenths * new_score

\* _calculate_weighted_average, where the average is a whole number
CalculateWeightedAverage(old_score, new_score) ==
    LET average == WeightedTenths(old_score, new_score) \div 10
    IN IF average > 100 THEN 100 ELSE IF average < 0 THEN 0 ELSE average

\* one more plan generated from prof by _generate_new_plan, the materials
\* selected with the default limit
DriftGenerate(planlist, prof) ==
    LET k == Len(planlist) + 1
        generated == GenerateNewPlan(planlist, prof, LlmTasks, k)
    IN WithContent(generated, k,
            [generated[k].content EXCEPT
                !.materials = SelectCuratedMaterials(IdentifyWeaknesses(prof),
                                                     ResolveTargetDifficulty(prof),
                                                     LatestPlans(planlist, 3),
                                                     DefaultMaterialLimit)])

InitDrift ==
    /\ \E prof \in DriftProfiles :
       \E first \in {DriftGenerate(<<>>, prof)} :
       \E second \in {DriftGenerate(first, prof)} :
       \E third \in {DriftGenerate(second, prof)} :
       \E planlist \in {<<>>, DriftGenerate(third, prof)} :
            /\ profile = prof
            /\ plans = planlist
            /\ clock = Len(planlist)
            /\ analyses = IF planlist = <<>> THEN 0 ELSE MIN_ANALYSES_FOR_PLAN
    /\ tests \in InitialCatalogs
    /\ events = {}
    /\ history = 0
    /\ result = NoResult
    /\ ain = NoAssignInput
    /\ aout = <<>>
    /\ sess = NoSessions

\* profile_service.update_profile on the existing profile, called by the
\* analysis task: a history row, then the five weighted averages
UpdateProfile(new_scores) ==
    /\ \A s \in SkillSet : WeightedTenths(profile[s], new_scores[s]) % 10 = 0
    /\ profile' = [s \in SkillSet |-> CalculateWeightedAverage(profile[s], new_scores[s])]
    /\ history' = history + 1
    /\ result' = Returned("update_profile", "ok")
    /\ UNCHANGED <<plans, tests, events, analyses, clock, ain, aout, sess>>

NextDrift ==
    \/ AddAnalysis
    \/ \E new_scores \in DriftScores : UpdateProfile(new_scores)
    \/ \E over_7_days \in Over7Days, llm_ok \in BOOLEAN :
            CheckAndGeneratePlan(over_7_days, llm_ok)
    \/ ReadActivePlan
    \/ \E task_id \in TaskIds : CompleteTask(task_id)
    \/ \E material_id \in MaterialInputs : ArticleOpen(material_id)

SpecDrift == InitDrift /\ [][NextDrift]_vars

-----------------------------------------------------------------------------
(* SpecSelect: _select_curated_materials applied to previous plans drawn     *)
(* from a bounded set, with the default limit.  The previous plans are the   *)
(* latest three of a user whose plans were generated one after another, or   *)
(* up to three plans each holding the catalog entries of one skill.          *)

\* a previous plan whose materials are the catalog entries of one skill
SkillPlan(k, skill) ==
    [id |-> k, is_archived |-> TRUE, generated_at |-> k,
     content |-> [NoContent EXCEPT
        !.materials = MaterialItems(SelectSeq(CuratedMaterialLibrary,
                                              LAMBDA m : m.skill = skill),
                                    "beginner", Len(CuratedMaterialLibrary))]]

\* the previous plans of the skills in S, in the order of CuratedSkillOrder
SkillPlans(S) ==
    LET order == SelectSeq(CuratedSkillOrder, LAMBDA skill : skill \in S)
    IN [k \in 1..Len(order) |-> SkillPlan(k, order[k])]

\* up to three previous plans, one skill each
SkillHistories == {SkillPlans(S) : S \in {T \in SUBSET SkillSet : Cardinality(T) <= 3}}

InitSelect ==
    /\ \E prof \in DriftProfiles :
       \E first \in {DriftGenerate(<<>>, prof)} :
       \E second \in {DriftGenerate(first, prof)} :
       \E third \in {DriftGenerate(second, prof)} :
       \E fourth \in {DriftGenerate(third, prof)} :
       \E previous_plans \in SkillHistories
                             \cup {first, LatestPlans(second, 3), LatestPlans(third, 3),
                                   LatestPlans(fourth, 3)} :
            /\ profile = prof
            /\ plans = previous_plans
    /\ tests \in InitialCatalogs
    /\ events = {}
    /\ history = 0
    /\ analyses = MIN_ANALYSES_FOR_PLAN
    /\ clock = 0
    /\ result = NoResult
    /\ ain = NoAssignInput
    /\ aout = <<>>
    /\ sess = NoSessions

\* _select_curated_materials on the previous plans, for the profile's
\* weaknesses and difficulty
SelectPass ==
    /\ aout = <<>>
    /\ aout' = <<SelectCuratedMaterials(IdentifyWeaknesses(profile),
                                        ResolveTargetDifficulty(profile),
                                        plans, DefaultMaterialLimit)>>
    /\ UNCHANGED <<plans, tests, events, profile, history, analyses, clock, result, ain, sess>>

NextSelect == SelectPass

SpecSelect == InitSelect /\ [][NextSelect]_vars

-----------------------------------------------------------------------------
(* SpecMark: mark_task_completed and mark_material_article_open called with  *)
(* any plan id, task id and material id.  The user has an archived plan and  *)
(* an active one; a plan id outside the table stands for an unknown plan or  *)
(* a plan of another user.                                                   *)

\* faulty variant of UserPlanById: the is_archived condition is left out
AnyPlanById(planlist, plan_id) ==
    {i \in 1..Len(planlist) : planlist[i].id = plan_id}

\* SELECT ... WHERE id == plan_id AND user_id == user_id AND is_archived == False
UserPlanById(planlist, plan_id) ==
    {i \in 1..Len(planlist) : planlist[i].id = plan_id /\ ~planlist[i].is_archived}

\* the plan ids, task ids and material ids a caller may send
MarkPlanIds == 1..(Len(plans) + 1)
MarkTaskIds == TaskIds \cup {"task_unknown"}

InitMark ==
    /\ \E prof \in InitialProfiles, first_tasks \in {LlmTasks, BootstrapTasks},
          second_tasks \in {LlmTasks, BootstrapTasks} :
            /\ profile = prof
            /\ plans = GenerateNewPlan(GenerateNewPlan(<<>>, prof, first_tasks, 1),
                                       prof, second_tasks, 2)
    /\ tests \in InitialCatalogs
    /\ events = {}
    /\ history = 0
    /\ analyses = MIN_ANALYSES_FOR_PLAN
    /\ clock = 2
    /\ result = NoResult
    /\ ain = NoAssignInput
    /\ aout = <<>>
    /\ sess = NoSessions

\* mark_task_completed
MarkTaskCompleted(plan_id, task_id) ==
    LET rows == UserPlanById(plans, plan_id)
    IN /\ IF rows = {} THEN
            /\ result' = Returned("mark_task_completed", "plan_not_found")
            /\ plans' = plans
          ELSE \E i \in rows :
            IF \E k \in 1..Len(plans[i].content.tasks) : plans[i].content.tasks[k].id = task_id
            THEN /\ plans' = WithContent(plans, i,
                                         MarkTaskContent(plans[i].content, task_id, clock))
                 /\ result' = [Returned("mark_task_completed", "ok") EXCEPT !.plan_id = plan_id]
            ELSE /\ result' = Returned("mark_task_completed", "task_not_found")
                 /\ plans' = plans
       /\ UNCHANGED <<tests, events, profile, history, analyses, clock, ain, aout, sess>>

\* mark_material_article_open
MarkMaterialArticleOpen(plan_id, material_id) ==
    LET rows == UserPlanById(plans, plan_id)
    IN /\ IF rows = {} THEN
            /\ result' = Returned("mark_material_article_open", "plan_not_found")
            /\ plans' = plans
          ELSE \E i \in rows :
            IF \E k \in 1..Len(plans[i].content.materials) :
                    plans[i].content.materials[k].id = material_id
            THEN /\ plans' = WithContent(plans, i,
                                         MarkMaterialContent(plans[i].content, material_id,
                                                             clock))
                 /\ result' = [Returned("mark_material_article_open", "ok") EXCEPT
                                  !.plan_id = plan_id]
            ELSE /\ result' = Returned("mark_material_article_open", "material_not_found")
                 /\ plans' = plans
       /\ UNCHANGED <<tests, events, profile, history, analyses, clock, ain, aout, sess>>

NextMark ==
    \/ \E plan_id \in MarkPlanIds, task_id \in MarkTaskIds :
            MarkTaskCompleted(plan_id, task_id)
    \/ \E plan_id \in MarkPlanIds, material_id \in MaterialInputs :
            MarkMaterialArticleOpen(plan_id, material_id)

SpecMark == InitMark /\ [][NextMark]_vars

-----------------------------------------------------------------------------
(* SpecProfile: _identify_weaknesses and _resolve_target_difficulty applied  *)
(* to a profile drawn from a bounded set.  The scores drawn are the bounds   *)
(* of the difficulty bands and their neighbours, so the averages 39, 39.8,   *)
(* 40, 69, 69.8 and 70 occur, and most profiles have skills of equal score.  *)

ProfileScores == {39, 40, 69, 70}

ProfileInputs == [SkillSet -> ProfileScores]

InitProfile ==
    /\ profile \in ProfileInputs
    /\ plans = <<>>
    /\ tests \in InitialCatalogs
    /\ events = {}
    /\ history = 0
    /\ analyses = 0
    /\ clock = 0
    /\ result = NoResult
    /\ ain = NoAssignInput
    /\ aout = <<>>
    /\ sess = NoSessions

\* _identify_weaknesses on the profile
WeaknessPass ==
    /\ aout = <<>>
    /\ aout' = <<[op |-> "identify_weaknesses", value |-> IdentifyWeaknesses(profile)]>>
    /\ UNCHANGED <<plans, tests, events, profile, history, analyses, clock, result, ain, sess>>

\* _resolve_target_difficulty on the profile
DifficultyPass ==
    /\ aout = <<>>
    /\ aout' = <<[op |-> "resolve_target_difficulty",
                  value |-> ResolveTargetDifficulty(profile)]>>
    /\ UNCHANGED <<plans, tests, events, profile, history, analyses, clock, result, ain, sess>>

NextProfile == WeaknessPass \/ DifficultyPass

SpecProfile == InitProfile /\ [][NextProfile]_vars

-----------------------------------------------------------------------------
(* SpecUnique: _check_material_uniqueness, and the steps of                  *)
(* _generate_new_plan that call it and save the plan, applied to a plan      *)
(* content and a previous plan drawn from a bounded set.  The new content    *)
(* holds the first n catalog entries; the previous plan holds the last c of  *)
(* them, and possibly an entry the new content does not have.                *)

\* faulty variant of CheckMaterialUniqueness: more than 70% must be new
CheckMoreThan70(new_materials, previous_plan) ==
    LET new_material_ids == {new_materials[i].id : i \in 1..Len(new_materials)}
        previous_material_ids ==
            {previous_plan.content.materials[i].id :
                i \in 1..Len(previous_plan.content.materials)}
    IN \/ previous_plan.content.materials = <<>>
       \/ new_material_ids = {}
       \/ 100 * Cardinality(new_material_ids \ previous_material_ids)
            > 70 * Cardinality(new_material_ids)

\* _check_material_uniqueness: (len(unique) / len(new)) * 100 >= 70
CheckMaterialUniqueness(new_materials, previous_plan) ==
    LET new_material_ids == {new_materials[i].id : i \in 1..Len(new_materials)}
        previous_material_ids ==
            {previous_plan.content.materials[i].id :
                i \in 1..Len(previous_plan.content.materials)}
    IN \/ previous_plan.content.materials = <<>>
       \/ new_material_ids = {}
       \/ 100 * Cardinality(new_material_ids \ previous_material_ids)
            >= 70 * Cardinality(new_material_ids)

\* the catalog entries from a to b as materials of a plan
CatalogMaterials(a, b) ==
    MaterialItems(SubSeq(CuratedMaterialLibrary, a, b), "beginner",
                  Len(CuratedMaterialLibrary))

\* the active previous plan: the last c of the first n entries, and the last
\* entry of the catalog if extra
UniquePrevious(n, c, extra) ==
    <<[id |-> 1, is_archived |-> FALSE, generated_at |-> 1,
       content |-> [NoContent EXCEPT
            !.materials = CatalogMaterials(n - c + 1, n)
                          \o (IF extra
                              THEN CatalogMaterials(Len(CuratedMaterialLibrary),
                                                    Len(CuratedMaterialLibrary))
                              ELSE <<>>)]]>>

InitUnique ==
    /\ \E n \in 0..MaxUniqueMaterials : \E c \in 0..n : \E extra \in BOOLEAN :
            /\ ain = [NoAssignInput EXCEPT !.materials = CatalogMaterials(1, n)]
            /\ plans = UniquePrevious(n, c, extra)
    /\ tests \in InitialCatalogs
    /\ events = {}
    /\ profile = ConcProfile
    /\ history = 0
    /\ analyses = MIN_ANALYSES_FOR_PLAN
    /\ clock = 1
    /\ result = NoResult
    /\ aout = <<>>
    /\ sess = NoSessions

\* _check_material_uniqueness on the new content and the previous plan
UniquenessPass ==
    /\ aout = <<>>
    /\ aout' = <<[op |-> "check_material_uniqueness",
                  value |-> CheckMaterialUniqueness(ain.materials, plans[1])]>>
    /\ UNCHANGED <<plans, tests, events, profile, history, analyses, clock, result, ain, sess>>

\* steps 5 and 6 of _generate_new_plan for the new content: the check against
\* the most recent plan, whose result is logged, and the INSERT
SaveCheckedPlan ==
    /\ aout = <<>>
    /\ Len(plans) = 1
    /\ aout' = <<[op |-> "generate_new_plan",
                  value |-> CheckMaterialUniqueness(ain.materials, LatestPlans(plans, 3)[1])]>>
    /\ plans' = Append(ArchiveActivePlan(plans),
                       [id |-> Len(plans) + 1, is_archived |-> FALSE,
                        generated_at |-> clock + 1,
                        content |-> [NoContent EXCEPT
                            !.materials = ain.materials,
                            !.target_difficulty = ResolveTargetDifficulty(profile),
                            !.block_achievements =
                                CollectBlockAchievements(
                                    LatestPlans(ArchiveActivePlan(plans), 100))]])
    /\ clock' = clock + 1
    /\ result' = [Returned("generate_new_plan", "ok") EXCEPT !.new_plan_id = Len(plans) + 1]
    /\ UNCHANGED <<tests, events, profile, history, analyses, ain, sess>>

NextUnique == UniquenessPass \/ SaveCheckedPlan

SpecUnique == InitUnique /\ [][NextUnique]_vars

-----------------------------------------------------------------------------
(* SpecWindow: completions before and after a regeneration.  The user has   *)
(* the analyses a plan needs; check_and_generate_plan finds the active plan  *)
(* more than seven days old and replaces it with a plan generated from the   *)
(* same profile, so the new block has the difficulty of the old one and      *)
(* _ensure_final_stage_tests finds the final test and the final simulation   *)
(* of the old block by title.  Assessments are completed before, at and      *)
(* after the generation of either plan.                                      *)

InitWindow ==
    /\ plans = <<>>
    /\ tests \in InitialCatalogs
    /\ events = {}
    /\ profile \in InitialProfiles
    /\ history = 0
    /\ analyses = MIN_ANALYSES_FOR_PLAN
    /\ clock = 0
    /\ result = NoResult
    /\ ain = NoAssignInput
    /\ aout = <<>>
    /\ sess = NoSessions

NextWindow ==
    \/ \E test_id \in 1..Len(tests) : CompleteTest(test_id)
    \/ CheckAndGeneratePlan(TRUE, TRUE)
    \/ ReadActivePlan

SpecWindow == InitWindow /\ [][NextWindow]_vars

-----------------------------------------------------------------------------
(* SpecProgress: the progress of one plan whose content is drawn from a      *)
(* bounded set: up to MaxProgressTasks tasks and up to MaxProgressMaterials  *)
(* materials, down to a document with neither (sync_plan_tracking reads a    *)
(* missing list, or a content that is not a document, as empty).  The user   *)
(* then completes assessments and tasks, opens articles, reads the plan and  *)
(* asks for the next level.                                                  *)

\* the plan row holding the first n_tasks bootstrap tasks and the first
\* n_materials catalog entries, generated at time 1
ProgressPlan(n_tasks, n_materials) ==
    [id |-> 1, is_archived |-> FALSE, generated_at |-> 1,
     content |-> [NoContent EXCEPT
                    !.tasks = SubSeq(BootstrapTasks, 1, n_tasks),
                    !.materials = CatalogMaterials(1, n_materials)]]

InitProgress ==
    /\ \E n_tasks \in 0..MaxProgressTasks, n_materials \in 0..MaxProgressMaterials :
            plans = <<ProgressPlan(n_tasks, n_materials)>>
    /\ tests \in InitialCatalogs
    /\ events = {}
    /\ profile = CHOOSE prof \in InitialProfiles : ResolveTargetDifficulty(prof) = "beginner"
    /\ history = 0
    /\ analyses = MIN_ANALYSES_FOR_PLAN
    /\ clock = 1
    /\ result = NoResult
    /\ ain = NoAssignInput
    /\ aout = <<>>
    /\ sess = NoSessions

NextProgress ==
    \/ \E test_id \in 1..Len(tests) : CompleteTest(test_id)
    \/ ReadActivePlan
    \/ \E task_id \in TaskIds : CompleteTask(task_id)
    \/ \E material_id \in MaterialInputs : ArticleOpen(material_id)
    \/ AdvanceToNextLevel

SpecProgress == InitProgress /\ [][NextProgress]_vars

-----------------------------------------------------------------------------
(* SpecOpen: one plan over time.  The plan is the first plan generated for   *)
(* the user, and no call replaces its materials; time passes between the     *)
(* calls, which are mark_material_article_open, mark_task_completed and      *)
(* sync_plan_tracking in any order, while the user completes assessments.    *)

InitOpen ==
    /\ \E prof \in {p \in InitialProfiles : ResolveTargetDifficulty(p) = "beginner"} :
            /\ profile = prof
            /\ plans = GenerateNewPlan(<<>>, prof, LlmTasks, 1)
    /\ tests \in InitialCatalogs
    /\ events = {}
    /\ history = 0
    /\ analyses = MIN_ANALYSES_FOR_PLAN
    /\ clock = 1
    /\ result = NoResult
    /\ ain = NoAssignInput
    /\ aout = <<>>
    /\ sess = NoSessions

\* time passes
Tick ==
    /\ clock < MaxOpenClock
    /\ clock' = clock + 1
    /\ result' = Returned("tick", "ok")
    /\ UNCHANGED <<plans, tests, events, profile, history, analyses, ain, aout, sess>>

NextOpen ==
    \/ Tick
    \/ \E test_id \in 1..Len(tests) : CompleteTest(test_id)
    \/ \E plan_id \in MarkPlanIds, task_id \in MarkTaskIds :
            MarkTaskCompleted(plan_id, task_id)
    \/ \E plan_id \in MarkPlanIds, material_id \in MaterialInputs :
            MarkMaterialArticleOpen(plan_id, material_id)
    \/ SyncPass

SpecOpen == InitOpen /\ [][NextOpen]_vars

-----------------------------------------------------------------------------
(* SpecFinal: the final-stage assessments of successive blocks.  The user    *)
(* has the fourth plan of SpecDrift (four articles of one domain, so GET     *)
(* /me/active runs the material refresh); analyses move the profile, the     *)
(* plan is read, and check_and_generate_plan replaces a plan that is more    *)
(* than seven days old.                                                      *)

InitFinal ==
    /\ \E prof \in DriftProfiles :
       \E first \in {DriftGenerate(<<>>, prof)} :
       \E second \in {DriftGenerate(first, prof)} :
       \E third \in {DriftGenerate(second, prof)} :
       \E planlist \in {DriftGenerate(third, prof)} :
            /\ profile = prof
            /\ plans = planlist
            /\ clock = Len(planlist)
    /\ analyses = MIN_ANALYSES_FOR_PLAN
    /\ tests \in InitialCatalogs
    /\ events = {}
    /\ history = 0
    /\ result = NoResult
    /\ ain = NoAssignInput
    /\ aout = <<>>
    /\ sess = NoSessions

\* check_and_generate_plan on an active plan generated more than seven days
\* ago, the materials selected with the default limit
RegenerateAfterAWeek ==
    /\ GetActivePlan(plans) # 0
    /\ Len(plans) < MaxFinalPlans
    /\ \E planlist \in {DriftGenerate(plans, profile)} :
            /\ plans' = planlist
            /\ result' = [Returned("check_and_generate_plan", "ok") EXCEPT
                             !.new_plan_id = planlist[Len(planlist)].id]
    /\ clock' = Len(plans) + 1
    /\ UNCHANGED <<tests, events, profile, history, analyses, ain, aout, sess>>

\* the content sanitize_plan_materials_if_needed commits, the materials
\* selected with the default limit
SanitizeWithDefaultLimit(planlist, i, prof) ==
    LET others == SelectSeq(planlist, LAMBDA row : row.id # planlist[i].id)
        target_difficulty == ResolveTargetDifficulty(prof)
    IN [planlist[i].content EXCEPT
            !.materials = SelectCuratedMaterials(IdentifyWeaknesses(prof), target_difficulty,
                                                 LatestPlans(others, 3), DefaultMaterialLimit),
            !.target_difficulty = target_difficulty]

\* GET /me/active: sanitize_plan_materials_if_needed with the default limit,
\* then sync_plan_tracking
ReadActivePlanDefault ==
    /\ GetActivePlan(plans) # 0
    /\ \E active \in {GetActivePlan(plans)} :
       \E sanitized \in {IF SanitizeNeeded(plans[active].content)
                         THEN WithContent(plans, active,
                                          SanitizeWithDefaultLimit(plans, active, profile))
                         ELSE plans} :
       \E t \in {Tracked("get_active_plan", sanitized, active, tests, events, clock)} :
            plans' = t.plans /\ tests' = t.tests /\ result' = t.result
    /\ UNCHANGED <<events, profile, history, analyses, clock, ain, aout, sess>>

NextFinal ==
    \/ \E new_scores \in DriftScores : UpdateProfile(new_scores)
    \/ RegenerateAfterAWeek
    \/ ReadActivePlanDefault

SpecFinal == InitFinal /\ [][NextFinal]_vars

-----------------------------------------------------------------------------
(* SpecRaise: the plan that follows a level-up.  The block and the profile   *)
(* are those of SpecLevel; advance_to_next_level applies the level-up and    *)
(* generates the next plan, or its generation fails and the plan is          *)
(* generated later, by a second advance_to_next_level or by the              *)
(* check_and_generate_plan of the analysis task, after analyses have moved   *)
(* the profile.                                                              *)

\* the scores an analysis produces: every score 0, 5 or 100
RaiseScores == {[s \in SkillSet |-> b] : b \in {0, 5, 100}}

InitRaise == InitLevel

NextRaise ==
    \/ AdvanceToNextLevel
    \/ \E new_scores \in RaiseScores :
            history < MaxRaiseHistory /\ UpdateProfile(new_scores)
    \/ \E over_7_days \in Over7Days, llm_ok \in BOOLEAN :
            CheckAndGeneratePlan(over_7_days, llm_ok)

SpecRaise == InitRaise /\ [][NextRaise]_vars

-----------------------------------------------------------------------------
(* SpecTrack: the plan, the catalog and the completions of SpecAssign, with  *)
(* the user at work on the plan: sync_plan_tracking, material openings and   *)
(* assessments completed from the plan's generation on, in any order.  The   *)
(* materials, the catalog and the completions before the plan never change:  *)
(* the final assessments of the plan's difficulty are in the catalog from    *)
(* the start, provisioned by an earlier plan of that difficulty, and the     *)
(* plan is new: it has no stored bindings.                                   *)

InitTrack ==
    /\ ain \in {input \in AssignInputs : input.existing_map = EmptyMap}
    /\ aout = <<>>
    /\ plans = <<AssignPlan(ain)>>
    /\ tests = EnsureFinalStageTests(AssignPlan(ain).content, ain.tests).tests
    /\ events = {<<t, 0>> : t \in ain.completed}
    /\ profile = CHOOSE prof \in InitialProfiles : ResolveTargetDifficulty(prof) = "intermediate"
    /\ history = 0
    /\ analyses = MIN_ANALYSES_FOR_PLAN
    /\ clock = 1
    /\ result = NoResult
    /\ sess = NoSessions

NextTrack ==
    \/ \E test_id \in 1..Len(ain.tests) : CompleteTest(test_id)
    \/ \E material_id \in MaterialInputs : ArticleOpen(material_id)
    \/ SyncPass

SpecTrack == InitTrack /\ [][NextTrack]_vars

-----------------------------------------------------------------------------
(* SpecFinish: a user working a new plan to its end.  The plan has one task  *)
(* and the materials and catalog of SpecAssign; before the plan the user     *)
(* completed nothing, or the first and third assessment of the catalog.  The *)
(* user marks the task completed, marks materials opened and completes the   *)
(* assessment a material is linked to; sync_plan_tracking runs on the plan   *)
(* again and again, as every request of the client for the plan runs it.     *)
(* The user leaves nothing undone for ever: a mark is sent, and a linked     *)
(* assessment is completed, if it stays possible.                            *)

InitFinish ==
    /\ ain \in {input \in AssignInputs :
                    /\ input.existing_map = EmptyMap
                    /\ input.completed \in {{}, {1, 3} \cap (1..Len(input.tests))}}
    /\ aout = <<>>
    /\ plans = <<[AssignPlan(ain) EXCEPT !.content.tasks = LlmTasks]>>
    /\ tests = ain.tests
    /\ events = {<<t, 0>> : t \in ain.completed}
    /\ profile = CHOOSE prof \in InitialProfiles : ResolveTargetDifficulty(prof) = "intermediate"
    /\ history = 0
    /\ analyses = MIN_ANALYSES_FOR_PLAN
    /\ clock = 1
    /\ result = NoResult
    /\ sess = NoSessions

\* the user completes the assessment the stored progress links material m to
CompleteLinked(m) ==
    LET linked == Get(plans[1].content.material_progress, m, NoEntry).linked_test_id
    IN /\ linked # NoId
       /\ <<linked, clock>> \notin events
       /\ events' = events \cup {<<linked, clock>>}
       /\ result' = Returned("complete_test", "ok")
       /\ UNCHANGED <<plans, tests, profile, history, analyses, clock, ain, aout, sess>>

FinishMaterialIds == {m.id : m \in AssignMaterialPool}

\* the user marks a task of the plan completed
FinishTask(task_id) ==
    /\ \E k \in 1..Len(plans[1].content.tasks) : plans[1].content.tasks[k].id = task_id
    /\ MarkTaskCompleted(1, task_id)

\* the user opens a material of the plan
FinishMaterial(material_id) ==
    /\ \E k \in 1..Len(plans[1].content.materials) :
            plans[1].content.materials[k].id = material_id
    /\ MarkMaterialArticleOpen(1, material_id)

NextFinish ==
    \/ SyncPass
    \/ \E task_id \in TaskIds : FinishTask(task_id)
    \/ \E material_id \in FinishMaterialIds : FinishMaterial(material_id)
    \/ \E material_id \in FinishMaterialIds : CompleteLinked(material_id)

SpecFinish ==
    /\ InitFinish
    /\ [][NextFinish]_vars
    /\ []<>(result.op = "sync_plan_tracking")
    /\ \A task_id \in TaskIds : WF_vars(FinishTask(task_id))
    /\ \A material_id \in FinishMaterialIds : WF_vars(FinishMaterial(material_id))
    /\ \A material_id \in FinishMaterialIds : WF_vars(CompleteLinked(material_id))

-----------------------------------------------------------------------------
(* SpecOverlap: plan generations of one user that overlap.  Each caller of   *)
(* _generate_new_plan (check_and_generate_plan of a background analysis,     *)
(* advance_to_next_level of a request) has its own AsyncSession and its own  *)
(* transaction (PostgreSQL, READ COMMITTED; no unique index on the active    *)
(* plan of a user, no SELECT ... FOR UPDATE).  _archive_active_plan reads    *)
(* the committed rows, its UPDATE waits for a transaction that holds the     *)
(* same row, and the INSERT becomes visible with the caller's commit; the    *)
(* LLM call sits between the UPDATE and the INSERT.                          *)

\* the table before any plan, and the databases of SpecConc
OverlapDatabases ==
    {[plans |-> <<>>, tests |-> CHOOSE c \in InitialCatalogs : TRUE, events |-> {}]}
    \cup ConcDatabases

InitOverlap ==
    /\ \E database \in OverlapDatabases :
            plans = database.plans /\ tests = database.tests /\ events = database.events
    /\ profile = ConcProfile
    /\ history = 0
    /\ analyses = MIN_ANALYSES_FOR_PLAN
    /\ clock = 1
    /\ result = NoResult
    /\ ain = NoAssignInput
    /\ aout = <<>>
    /\ sess = [s \in Sessions |-> NoSession]

\* the sessions inside _generate_new_plan
Generating == {s \in Sessions : sess[s].pc # "idle"}

\* a call that will reach _generate_new_plan still finds room in the table
RoomToGenerate == Len(plans) + Cardinality(Generating) < MaxConcPlans

\* check_and_generate_plan up to its call of _generate_new_plan; get_active_plan
\* raises when it finds more than one active row
OverlapCheck(s, over_7_days) ==
    /\ sess[s].pc = "idle"
    /\ RoomToGenerate
    /\ analyses >= MIN_ANALYSES_FOR_PLAN
    /\ IF Cardinality(ActivePlans(plans)) > 1 THEN
            /\ result' = Returned("check_and_generate_plan", "multiple_rows")
            /\ UNCHANGED sess
       ELSE IF \/ GetActivePlan(plans) = 0
               \/ over_7_days
               \/ ShouldRegeneratePlan(plans[GetActivePlan(plans)], profile)
       THEN
            /\ sess' = [sess EXCEPT ![s] =
                    [@ EXCEPT !.op = "check_and_generate_plan", !.pc = "select",
                              !.profile = profile]]
            /\ result' = result
       ELSE
            /\ result' = Returned("check_and_generate_plan", "none")
            /\ UNCHANGED sess
    /\ UNCHANGED <<plans, tests, events, profile, history, analyses, clock, ain, aout>>

\* advance_to_next_level up to its call of _generate_new_plan: the tracking
\* pass, the two checks, the level-up and its commit
OverlapAdvance(s) ==
    /\ sess[s].pc = "idle"
    /\ RoomToGenerate
    /\ Cardinality(ActivePlans(plans)) = 1
    /\ \E active \in {GetActivePlan(plans)} :
       \E t \in {Tracked("advance_to_next_level", plans, active, tests, events, clock)} :
        IF ~t.result.view.final_stage.unlocked \/ ~t.result.view.final_stage.completed
        THEN
            /\ plans' = t.plans
            /\ tests' = t.tests
            /\ result' = [t.result EXCEPT
                             !.status = IF ~t.result.view.final_stage.unlocked
                                        THEN "not_unlocked" ELSE "not_completed"]
            /\ UNCHANGED <<profile, history, sess>>
        ELSE
            \E level_up_was_applied \in {LevelUpWasApplied(t.result.view.final_stage)} :
                /\ profile' = IF level_up_was_applied THEN profile
                              ELSE ApplyFinalLevelUp(profile,
                                                     t.plans[active].content.target_difficulty)
                /\ history' = IF level_up_was_applied THEN history ELSE history + 1
                /\ plans' = IF level_up_was_applied THEN t.plans
                            ELSE WithContent(t.plans, active,
                                             LevelUpContent(t.plans[active].content,
                                                            t.plans[active].id,
                                                            t.result.view.final_stage, clock))
                /\ tests' = t.flushed
                /\ sess' = [sess EXCEPT ![s] =
                        [@ EXCEPT !.op = "advance_to_next_level", !.pc = "select",
                                  !.profile = profile']]
                /\ result' = result
    /\ UNCHANGED <<events, analyses, clock, ain, aout>>

\* the SELECT of _archive_active_plan: the committed active row (0 for none);
\* scalar_one_or_none raises on more than one and the call fails
ArchiveSelect(s) ==
    /\ sess[s].pc = "select"
    /\ IF Cardinality(ActivePlans(plans)) > 1 THEN
            /\ sess' = [sess EXCEPT ![s] = NoSession]
            /\ result' = Returned(sess[s].op, "multiple_rows")
       ELSE
            /\ sess' = [sess EXCEPT ![s] =
                    [@ EXCEPT !.pc = "update", !.plan_id = GetActivePlan(plans)]]
            /\ result' = result
    /\ UNCHANGED <<plans, tests, events, profile, history, analyses, clock, ain, aout>>

\* the sessions holding the lock of plan row i: they flushed is_archived = True
\* and have not committed
RowHolders(i) == {o \in Sessions : sess[o].pc = "insert" /\ sess[o].plan_id = i}

\* the flush of _archive_active_plan: the UPDATE of the selected row, which
\* waits while another transaction holds the row
ArchiveFlush(s) ==
    /\ sess[s].pc = "update"
    /\ sess[s].plan_id # 0 => RowHolders(sess[s].plan_id) = {}
    /\ sess' = [sess EXCEPT ![s] = [@ EXCEPT !.pc = "insert"]]
    /\ UNCHANGED <<plans, tests, events, profile, history, analyses, clock, result, ain, aout>>

\* the table with the row the session archived
ArchivedBySession(planlist, i) ==
    IF i = 0 THEN planlist ELSE [planlist EXCEPT ![i].is_archived = TRUE]

\* the rest of _generate_new_plan and the caller's commit: the archived row and
\* the new plan become visible together
InsertCommit(s, llm_ok) ==
    /\ sess[s].pc = "insert"
    /\ \E planlist \in {InsertNewPlan(ArchivedBySession(plans, sess[s].plan_id),
                                      sess[s].profile,
                                      IF llm_ok THEN LlmTasks ELSE BootstrapTasks,
                                      clock + 1)} :
            /\ plans' = planlist
            /\ result' = [Returned(sess[s].op, "ok") EXCEPT
                             !.new_plan_id = planlist[Len(planlist)].id]
    /\ clock' = clock + 1
    /\ sess' = [sess EXCEPT ![s] = NoSession]
    /\ UNCHANGED <<tests, events, profile, history, analyses, ain, aout>>

NextOverlap ==
    \E s \in Sessions :
        \/ \E over_7_days \in Over7Days : OverlapCheck(s, over_7_days)
        \/ OverlapAdvance(s)
        \/ ArchiveSelect(s)
        \/ ArchiveFlush(s)
        \/ \E llm_ok \in BOOLEAN : InsertCommit(s, llm_ok)

SpecOverlap == InitOverlap /\ [][NextOverlap]_vars

-----------------------------------------------------------------------------
(* SpecShared: sync_plan_tracking of two users on the catalog they share.    *)
(* Each user has an active plan of some difficulty; a call runs in its own   *)
(* transaction (READ COMMITTED): the two lookups of _ensure_final_stage_tests *)
(* see the committed catalog and the rows the call itself has flushed, an    *)
(* INSERT takes its id from the sequence at the flush and is visible to the  *)
(* other user only after the commit that ends sync_plan_tracking.  sess[u]   *)
(* holds the call of user u: pc, the content of the user's plan, the final   *)
(* stage being provisioned and the rows flushed but not committed.           *)

SharedSession(difficulty) ==
    [pc |-> "idle", content |-> [NoContent EXCEPT !.target_difficulty = difficulty],
     final_stage |-> NoFinalStage, pending |-> <<>>]

InitShared ==
    /\ sess \in [Sessions -> {SharedSession(d) : d \in Difficulties}]
    /\ tests \in InitialCatalogs
    /\ plans = <<>>
    /\ events = {}
    /\ profile = ConcProfile
    /\ history = 0
    /\ analyses = MIN_ANALYSES_FOR_PLAN
    /\ clock = 1
    /\ result = NoResult
    /\ ain = NoAssignInput
    /\ aout = <<>>

\* the catalog a statement of user u sees
SeenBy(u) == tests \o sess[u].pending

\* the next value of the id sequence of the tests table
NextTestId == Len(tests) + Len(sess[1].pending) + Len(sess[2].pending) + 1

\* the rows of user u not yet committed after a lookup-or-create returned e =
\* <<catalog, id>> on SeenBy(u): a created row takes its id from the sequence
PendingAfter(u, e) ==
    IF Len(e[1]) > Len(SeenBy(u))
    THEN Append(sess[u].pending, [e[1][Len(e[1])] EXCEPT !.id = NextTestId])
    ELSE SubSeq(e[1], Len(tests) + 1, Len(e[1]))

\* the id the lookup-or-create returned
EnsuredId(u, e) == IF Len(e[1]) > Len(SeenBy(u)) THEN NextTestId ELSE e[2]

\* sync_plan_tracking of user u up to the flush of the final test: the lookup
\* by stored id, the lookup by title, the INSERT.  The UPDATE of a row that
\* was found writes the title and the texts of the difficulty into it.
EnsureTestStep(u) ==
    /\ sess[u].pc = "idle"
    /\ \E final_stage \in {IF sess[u].content.final_stage.present
                           THEN sess[u].content.final_stage
                           ELSE [NoFinalStage EXCEPT !.present = TRUE]} :
       \E e \in {EnsureFinalTest(final_stage,
                                 NormalizeDifficulty(sess[u].content.target_difficulty),
                                 SeenBy(u))} :
            /\ tests' = SubSeq(e[1], 1, Len(tests))
            /\ sess' = [sess EXCEPT ![u] =
                    [@ EXCEPT !.pc = "simulation",
                              !.final_stage = [final_stage EXCEPT
                                                  !.final_test_id = EnsuredId(u, e)],
                              !.pending = PendingAfter(u, e)]]
    /\ UNCHANGED <<plans, events, profile, history, analyses, clock, result, ain, aout>>

\* the same for the final simulation
EnsureSimulationStep(u) ==
    /\ sess[u].pc = "simulation"
    /\ \E e \in {EnsureFinalSimulation(sess[u].final_stage,
                                       NormalizeDifficulty(sess[u].content.target_difficulty),
                                       SeenBy(u))} :
            /\ tests' = SubSeq(e[1], 1, Len(tests))
            /\ sess' = [sess EXCEPT ![u] =
                    [@ EXCEPT !.pc = "commit",
                              !.final_stage.final_simulation_id = EnsuredId(u, e),
                              !.pending = PendingAfter(u, e)]]
    /\ UNCHANGED <<plans, events, profile, history, analyses, clock, result, ain, aout>>

\* the commit that ends sync_plan_tracking: the flushed rows and the final
\* stage of the content
SharedCommit(u) ==
    /\ sess[u].pc = "commit"
    /\ tests' = tests \o sess[u].pending
    /\ sess' = [sess EXCEPT ![u] =
            [@ EXCEPT !.pc = "idle", !.content.final_stage = sess[u].final_stage,
                      !.pending = <<>>]]
    /\ result' = Returned("sync_plan_tracking", "ok")
    /\ UNCHANGED <<plans, events, profile, history, analyses, clock, ain, aout>>

NextShared ==
    \E u \in Sessions :
        \/ EnsureTestStep(u)
        \/ EnsureSimulationStep(u)
        \/ SharedCommit(u)

SpecShared == InitShared /\ [][NextShared]_vars

-----------------------------------------------------------------------------
(* Properties of Spec *)

\* plan row i has its level-up recorded
LevelUpApplied(planlist, i) ==
    planlist[i].content.final_stage.present /\ planlist[i].content.final_stage.level_up_applied

\* the call that just returned ran a tracking pass
TrackingOps == {"get_active_plan", "complete_task", "article_open", "advance_to_next_level",
                "sync_plan_tracking"}

\* the call that just returned generated a plan
Generated(r) ==
    /\ r.op \in {"check_and_generate_plan", "advance_to_next_level"}
    /\ r.status = "ok"

\* C1: across generations that do not overlap the user never has more than one
\* active plan; a successful generation (by check_and_generate_plan or by
\* advance_to_next_level) leaves exactly one, the plan it inserted, and the
\* plan that was active before is archived; no call removes a plan row or
\* clears is_archived.
C1_OneActivePlan ==
    [][/\ Cardinality(ActivePlans(plans')) <= 1
       /\ Len(plans') >= Len(plans)
       /\ \A i \in 1..Len(plans) :
            /\ plans'[i].id = plans[i].id
            /\ plans[i].is_archived => plans'[i].is_archived
       /\ Generated(result') =>
            /\ Len(plans') = Len(plans) + 1
            /\ ActivePlans(plans') = {Len(plans')}
            /\ plans'[Len(plans')].id = result'.new_plan_id
            /\ \A i \in 1..Len(plans) : plans'[i].is_archived]_vars

\* a generation has replaced an active plan: the old row is kept, archived
C1_Witness ==
    /\ Generated(result)
    /\ Len(plans) = 2
    /\ plans[1].is_archived
    /\ ~plans[2].is_archived

\* C2: level_up_applied of a plan never goes from true back to false, whatever
\* call follows (tracking pass, task or material mark, sanitize), and it goes
\* from false or absent to true only in a call of advance_to_next_level; a new
\* plan starts without it.
C2_LevelUpAppliedOnce ==
    [][/\ \A i \in 1..Len(plans) :
            /\ LevelUpApplied(plans, i) => LevelUpApplied(plans', i)
            /\ (~LevelUpApplied(plans, i) /\ LevelUpApplied(plans', i))
                    => result'.op = "advance_to_next_level"
       /\ \A i \in (Len(plans) + 1)..Len(plans') : ~LevelUpApplied(plans', i)]_vars

\* a material mark and its tracking pass ran on a plan whose level-up is applied
C2_Witness ==
    /\ result.op = "article_open"
    /\ result.status = "ok"
    /\ result.plan_id \in 1..Len(plans)
    /\ LevelUpApplied(plans, result.plan_id)
    /\ result.view.final_stage.level_up_applied

\* C3 as stated: when advance_to_next_level has succeeded and is called again
\* with nothing in between, the second call returns already_applied = true and
\* a new plan id, and changes no profile score.
C3_SecondAdvanceAlreadyApplied ==
    [][(/\ result.op = "advance_to_next_level"
        /\ result.status = "ok"
        /\ result'.op = "advance_to_next_level")
       => /\ result'.already_applied
          /\ result'.new_plan_id # NoId
          /\ profile' = profile]_vars

C9_CompletedIffBothFinalItems ==
    /\ result.op \in TrackingOps =>
            (result.view.final_stage.completed <=>
                (result.view.final_stage.final_test_completed
                 /\ result.view.final_stage.final_simulation_completed))
    /\ \A i \in 1..Len(plans) :
            plans[i].content.final_stage.completed <=>
                (plans[i].content.final_stage.final_test_completed
                 /\ plans[i].content.final_stage.final_simulation_completed)

\* a tracking pass has reported both final items done and the stage completed
C9_Witness ==
    /\ result.op \in TrackingOps
    /\ result.status = "ok"
    /\ result.view.final_stage.final_test_completed
    /\ result.view.final_stage.final_simulation_completed
    /\ result.view.final_stage.completed

\* C10: in the result of a tracking pass unlocked is true exactly when the
\* returned percentage is at least 100, and that is exactly when every task of
\* the plan is completed, every material is opened and every material's linked
\* assessment has a completion at or after the plan's generation.
C10_UnlockedIffAllDone ==
    (result.op \in TrackingOps /\ result.plan_id \in 1..Len(plans)) =>
        LET plan == plans[result.plan_id]
            view == result.view
            all_done ==
                /\ \A k \in 1..Len(plan.content.tasks) :
                        plan.content.tasks[k].status = "completed"
                /\ \A k \in 1..Len(plan.content.materials) :
                        LET id == plan.content.materials[k].id
                        IN /\ id \in DOMAIN view.material_progress
                           /\ view.material_progress[id].article_opened
                           /\ \E e \in events :
                                /\ e[1] = view.material_progress[id].linked_test_id
                                /\ e[2] >= plan.generated_at
        IN /\ view.final_stage.unlocked <=> view.progress.percentage >= 100 * PercentScale
           /\ view.final_stage.unlocked <=> all_done

\* a tracking pass has reported the final stage unlocked
C10_Witness ==
    /\ result.op \in TrackingOps
    /\ result.status = "ok"
    /\ result.view.final_stage.unlocked
    /\ result.view.progress.total > 0

\* everything of plan row i is done in the eyes of the tracking pass that
\* returned view: tasks completed, materials opened, every linked assessment
\* and both final items completed at or after the plan's generation
EverythingDone(planlist, i, view) ==
    /\ \A k \in 1..Len(planlist[i].content.tasks) :
            planlist[i].content.tasks[k].status = "completed"
    /\ \A k \in 1..Len(planlist[i].content.materials) :
            /\ planlist[i].content.materials[k].id \in DOMAIN view.material_progress
            /\ view.material_progress[planlist[i].content.materials[k].id].article_opened
            /\ \E e \in events :
                    /\ e[1] = view.material_progress[planlist[i].content.materials[k].id].linked_test_id
                    /\ e[2] >= planlist[i].generated_at
    /\ \E e \in events : e[1] = view.final_stage.final_test_id /\ e[2] >= planlist[i].generated_at
    /\ \E e \in events : e[1] = view.final_stage.final_simulation_id /\ e[2] >= planlist[i].generated_at

\* the entries of an achievement list that belong to block plan_id
BlockEntries(achievements, plan_id) ==
    {k \in 1..Len(achievements) : achievements[k].id[2] = plan_id}

\* C11: end to end from a beginner plan: when everything of the plan is done a
\* tracking pass reports percentage 100, unlocked and completed, and
\* advance_to_next_level passes its checks; when it returns it leaves every
\* score at 45 or more, one achievement of that block in the new plan, the
\* old plan archived and the new plan active with the difficulty resolved from
\* the raised profile.
C11_BeginnerBlockEndToEnd ==
    [][/\ (/\ result'.op \in TrackingOps
           /\ result'.plan_id \in 1..Len(plans)
           /\ plans[result'.plan_id].content.target_difficulty = "beginner"
           /\ EverythingDone(plans', result'.plan_id, result'.view))
          => /\ result'.view.progress.percentage = 100 * PercentScale
             /\ result'.view.final_stage.unlocked
             /\ result'.view.final_stage.completed
             /\ result'.op = "advance_to_next_level"
                    => result'.status \in {"ok", "generation_failed"}
       /\ (/\ result'.op = "advance_to_next_level"
           /\ result'.status = "ok"
           /\ plans[result'.plan_id].content.target_difficulty = "beginner")
          => /\ \A s \in SkillSet : profile'[s] >= 45 /\ profile'[s] >= profile[s]
             /\ plans'[result'.plan_id].is_archived
             /\ ActivePlans(plans') = {Len(plans')}
             /\ plans'[Len(plans')].id = result'.new_plan_id
             /\ Len(plans') = Len(plans) + 1
             /\ plans'[Len(plans')].content.target_difficulty = ResolveTargetDifficulty(profile')
             /\ Cardinality(BlockEntries(plans'[Len(plans')].content.block_achievements,
                                         result'.plan_id)) = 1
             /\ \A k \in BlockEntries(plans'[Len(plans')].content.block_achievements,
                                       result'.plan_id) :
                    plans'[Len(plans')].content.block_achievements[k].id
                        = <<"block", result'.plan_id, "beginner">>]_vars

\* advance_to_next_level has completed a beginner block and raised the scores
C11_Witness ==
    /\ result.op = "advance_to_next_level"
    /\ result.status = "ok"
    /\ ~result.already_applied
    /\ Len(plans) = 2
    /\ plans[1].content.target_difficulty = "beginner"
    /\ plans[1].is_archived
    /\ Cardinality(BlockEntries(plans[2].content.block_achievements, 1)) = 1
    /\ \A s \in SkillSet : profile[s] >= 45

\* the achievement ids in block_achievements of the active plan
ActiveAchievementIds(planlist) ==
    IF GetActivePlan(planlist) = 0 THEN {}
    ELSE {planlist[GetActivePlan(planlist)].content.block_achievements[k].id :
            k \in 1..Len(planlist[GetActivePlan(planlist)].content.block_achievements)}

\* C13: the achievement history is monotone: every achievement id in
\* block_achievements of the active plan before a call (tracking pass, mark,
\* level-up, plan generation) is in block_achievements of the active plan
\* after it; a new plan is seeded with the whole history, the block just
\* completed included.
C13_AchievementsMonotone ==
    [][/\ ActiveAchievementIds(plans) \subseteq ActiveAchievementIds(plans')
       /\ (result'.op = "advance_to_next_level" /\ result'.status = "ok")
            => \E id \in ActiveAchievementIds(plans') : id[2] = result'.plan_id]_vars

\* a plan was generated while the active plan held an achievement, and the
\* new plan holds it
C13_Witness ==
    /\ Generated(result)
    /\ Len(plans) = 2
    /\ plans[1].content.block_achievements # <<>>
    /\ ActiveAchievementIds(plans) # {}
    /\ \A k \in 1..Len(plans[1].content.block_achievements) :
            plans[1].content.block_achievements[k].id \in ActiveAchievementIds(plans)

\* the task list is the three bootstrap tasks, all pending
IsBootstrap(tasks) ==
    /\ Len(tasks) = 3
    /\ tasks[1].id = "task_reflect_1" /\ tasks[2].id = "task_ei_1" /\ tasks[3].id = "task_ct_1"
    /\ \A k \in 1..3 : tasks[k].status = "pending"

\* C18: _generate_new_plan returns a newly persisted active plan whether the
\* content-generation call succeeds or fails (raises, not configured): every
\* generation adds one plan row, the only active one, whose tasks are those of
\* the reply or the three bootstrap tasks; a check_and_generate_plan whose
\* content-generation call fails returns the plan when a generation is due,
\* and that plan carries the three bootstrap tasks.
C18_GenerationSurvivesLlmFailure ==
    [][/\ Generated(result')
            => /\ Len(plans') = Len(plans) + 1
               /\ ActivePlans(plans') = {Len(plans')}
               /\ plans'[Len(plans')].id = result'.new_plan_id
               /\ \/ plans'[Len(plans')].content.tasks = LlmTasks
                  \/ IsBootstrap(plans'[Len(plans')].content.tasks)
       /\ (\E over_7_days \in Over7Days : CheckAndGeneratePlan(over_7_days, FALSE))
            => /\ result'.status \in {"ok", "none"}
               /\ result'.status = "none"
                    <=> ~(/\ analyses >= MIN_ANALYSES_FOR_PLAN
                          /\ \/ GetActivePlan(plans) = 0
                             \/ LevelUpApplied(plans, GetActivePlan(plans)))
               /\ result'.status = "ok"
                    => IsBootstrap(plans'[Len(plans')].content.tasks)]_vars

\* a plan was generated with the fallback content
C18_Witness ==
    /\ Generated(result)
    /\ ~plans[Len(plans)].is_archived
    /\ IsBootstrap(plans[Len(plans)].content.tasks)

\* both final items of the stage in view have a completion at or after time
\* generated_at
FinalItemsDoneSince(view, generated_at) ==
    /\ \E e \in events : e[1] = view.final_stage.final_test_id /\ e[2] >= generated_at
    /\ \E e \in events : e[1] = view.final_stage.final_simulation_id /\ e[2] >= generated_at

\* C28: completions may come in any order.  A tracking pass that finds both
\* final items completed since the plan's generation while the aggregate
\* progress is below 100% reports completed = true with unlocked = false, and
\* advance_to_next_level in that state is refused with the not-unlocked error
\* and levels nothing up.  Once the progress is 100% advance_to_next_level
\* passes both checks on the completions already recorded, whenever they
\* arrived: it records no completion, applies the level-up and, unless the
\* generation of the next plan raises, archives the plan and returns the new
\* one.
C28_FinalItemsInAnyOrder ==
    [][(result'.op \in TrackingOps /\ result'.plan_id \in 1..Len(plans)
        /\ FinalItemsDoneSince(result'.view, plans[result'.plan_id].generated_at))
       => /\ events' = events
          /\ result'.view.final_stage.completed
          /\ result'.view.progress.percentage < 100 * PercentScale
                => /\ ~result'.view.final_stage.unlocked
                   /\ result'.op = "advance_to_next_level"
                        => /\ result'.status = "not_unlocked"
                           /\ profile' = profile
                           /\ history' = history
                           /\ Len(plans') = Len(plans)
                           /\ LevelUpApplied(plans', result'.plan_id)
                                = LevelUpApplied(plans, result'.plan_id)
          /\ (/\ result'.view.progress.percentage = 100 * PercentScale
              /\ result'.op = "advance_to_next_level")
                => /\ result'.view.final_stage.unlocked
                   /\ result'.status \in {"ok", "generation_failed"}
                   /\ LevelUpApplied(plans', result'.plan_id)
                   /\ result'.status = "ok"
                        => /\ plans'[result'.plan_id].is_archived
                           /\ Len(plans') = Len(plans) + 1
                           /\ ActivePlans(plans') = {Len(plans')}]_vars

\* advance_to_next_level was refused as not unlocked although both final items
\* are completed and some of the tasks and materials are done
C28_Witness ==
    /\ result.op = "advance_to_next_level"
    /\ result.status = "not_unlocked"
    /\ result.plan_id \in 1..Len(plans)
    /\ FinalItemsDoneSince(result.view, plans[result.plan_id].generated_at)
    /\ result.view.final_stage.completed
    /\ ~result.view.final_stage.unlocked
    /\ result.view.progress.completed > 0
    /\ result.view.progress.completed < result.view.progress.total

\* C29: when the level-up of the active plan is committed (level_up_applied
\* is true in its stored final stage) and the plan is still active because the
\* generation of the next plan did not complete, a later advance_to_next_level
\* changes no score, adds no profile-history row and appends no achievement to
\* the plan, and reports already_applied = true; when its generation completes
\* it archives that plan and inserts the next plan, which carries the block's
\* one achievement, and when the generation fails again the plan stays active
\* with the level-up applied.
C29_RetryAfterFailedGeneration ==
    [][(/\ result'.op = "advance_to_next_level"
        /\ result'.plan_id \in 1..Len(plans)
        /\ ~plans[result'.plan_id].is_archived
        /\ LevelUpApplied(plans, result'.plan_id))
       => /\ result'.status \in {"ok", "generation_failed"}
          /\ result'.already_applied
          /\ profile' = profile
          /\ history' = history
          /\ plans'[result'.plan_id].content.block_achievements
                = plans[result'.plan_id].content.block_achievements
          /\ LevelUpApplied(plans', result'.plan_id)
          /\ result'.status = "ok"
                => /\ plans'[result'.plan_id].is_archived
                   /\ Len(plans') = Len(plans) + 1
                   /\ ActivePlans(plans') = {Len(plans')}
                   /\ result'.new_plan_id = plans'[Len(plans')].id
                   /\ Cardinality(BlockEntries(plans'[Len(plans')].content.block_achievements,
                                               result'.plan_id)) = 1
          /\ result'.status = "generation_failed"
                => /\ Len(plans') = Len(plans)
                   /\ ~plans'[result'.plan_id].is_archived]_vars

\* advance_to_next_level has returned the next plan with already_applied =
\* true: the level-up had been committed by an earlier call whose generation
\* failed, and there is still the one history row and the one achievement
C29_Witness ==
    /\ result.op = "advance_to_next_level"
    /\ result.status = "ok"
    /\ result.already_applied
    /\ Len(plans) = 2
    /\ plans[1].is_archived
    /\ ~plans[2].is_archived
    /\ LevelUpApplied(plans, 1)
    /\ history = 1
    /\ Len(plans[1].content.block_achievements) = 1
    /\ Cardinality(BlockEntries(plans[2].content.block_achievements, 1)) = 1

-----------------------------------------------------------------------------
(* Properties of SpecAssign *)

\* C6 as stated: of two tracking passes in a row on the same plan, catalog and
\* completion events, the second detects no change, commits nothing and
\* returns the material_progress, progress and final_stage of the first.
C6_SecondSyncChangesNothing ==
    [][(result.op = "sync_plan_tracking" /\ SyncPass)
       => /\ ~result'.changed
          /\ plans' = plans
          /\ tests' = tests
          /\ result'.view.material_progress = result.view.material_progress
          /\ result'.view.progress = result.view.progress
          /\ result'.view.final_stage = result.view.final_stage]_vars

\* the ids of the drawn materials, in plan order
AssignMaterialIds == [i \in 1..Len(ain.materials) |-> ain.materials[i].id]

\* the list material i picks from: the eligible assessments of its skill, or
\* all eligible assessments when its skill has none
AssignPool(i) ==
    IF CandidateIds(ain.tests, ain.materials[i]) # <<>>
    THEN SeqToSet(CandidateIds(ain.tests, ain.materials[i]))
    ELSE SeqToSet(IdsOf(FilteredTests(ain.tests)))

\* materials i < j are bound to the same assessment by the map
SameBinding(map, i, j) ==
    /\ i < j
    /\ AssignMaterialIds[i] \in DOMAIN map
    /\ AssignMaterialIds[j] \in DOMAIN map
    /\ map[AssignMaterialIds[i]] = map[AssignMaterialIds[j]]

StoredBinding(planlist, i) ==
    Get(planlist[1].content.material_test_map, AssignMaterialIds[i], NoId)

\* C16 as stated: in the second of two tracking passes in a row on the same
\* materials, catalog and completions, the binding of a material changes only
\* if the old one was missing, not eligible any more or completed before the
\* plan, and the new binding is then not completed before the plan.
C16_RebindOnlyToUncompleted ==
    [][(result.op = "sync_plan_tracking" /\ SyncPass)
       => \A i \in 1..Len(ain.materials) :
            StoredBinding(plans', i) # StoredBinding(plans, i)
                => /\ \/ StoredBinding(plans, i) = NoId
                      \/ StoredBinding(plans, i) \notin SeqToSet(IdsOf(RegularTests(tests)))
                      \/ StoredBinding(plans, i) \in ain.completed
                   /\ StoredBinding(plans', i) \notin ain.completed]_vars

\* the map pass k of _assign_tests_to_materials was given, and what it gave
\* and returned for material i (NoId: no binding)
PassInput(k) == IF k = 1 THEN ain.existing_map ELSE aout[k - 1]
PreviousBinding(k, i) == Get(PassInput(k), AssignMaterialIds[i], NoId)
NewBinding(k, i) == Get(aout[k], AssignMaterialIds[i], NoId)

\* the assessments pass k has bound to the materials before material i
BoundEarlier(k, i) == {NewBinding(k, l) : l \in 1..(i - 1)} \ {NoId}

\* the eligible assessments of the skill of material i
SkillCandidates(i) == SeqToSet(CandidateIds(ain.tests, ain.materials[i]))

\* the eligible assessments of the catalog
Eligible == SeqToSet(IdsOf(FilteredTests(ain.tests)))

\* material i has a same-skill assessment that is neither completed nor bound
\* to an earlier material of the plan
FreeAlternative(k, i) ==
    \E c \in SkillCandidates(i) : c \notin ain.completed /\ c \notin BoundEarlier(k, i)

\* the skill of material i has no uncompleted assessment besides its binding
NoUncompletedAlternative(k, i) ==
    \A c \in SkillCandidates(i) : c = PreviousBinding(k, i) \/ c \in ain.completed

\* what every pass does for a material whose stored binding is completed and
\* has a free alternative: it binds a same-skill assessment not completed
ReboundWhenCompleted(k, i) ==
    (PreviousBinding(k, i) \in ain.completed /\ FreeAlternative(k, i))
        => (NewBinding(k, i) \in SkillCandidates(i) /\ NewBinding(k, i) \notin ain.completed)

\* C17 as stated: a material whose stored binding is completed is rebound to
\* a same-skill assessment outside the completed set whenever one exists that
\* is not yet bound in the plan; it keeps the binding when its skill has no
\* uncompleted alternative; a stored binding that is eligible and not
\* completed is kept.
C17_RebindOrKeep ==
    \A k \in 1..Len(aout) : \A i \in 1..Len(ain.materials) :
        /\ ReboundWhenCompleted(k, i)
        /\ (/\ PreviousBinding(k, i) \in Eligible \cap ain.completed
            /\ NoUncompletedAlternative(k, i))
           => NewBinding(k, i) = PreviousBinding(k, i)
        /\ (PreviousBinding(k, i) \in Eligible \ ain.completed)
           => NewBinding(k, i) = PreviousBinding(k, i)

\* C17, amended: the two "keeps" hold for a stored binding that no earlier
\* material of the plan has been bound to in this pass; the rebinding holds
\* as stated.
C17_RebindOrKeepUnlessTaken ==
    \A k \in 1..Len(aout) : \A i \in 1..Len(ain.materials) :
        /\ ReboundWhenCompleted(k, i)
        /\ (/\ PreviousBinding(k, i) \in Eligible \cap ain.completed
            /\ PreviousBinding(k, i) \notin BoundEarlier(k, i)
            /\ NoUncompletedAlternative(k, i))
           => NewBinding(k, i) = PreviousBinding(k, i)
        /\ (/\ PreviousBinding(k, i) \in Eligible \ ain.completed
            /\ PreviousBinding(k, i) \notin BoundEarlier(k, i))
           => NewBinding(k, i) = PreviousBinding(k, i)

\* a pass has rebound a material from a completed assessment to a same-skill
\* one not completed, and the next pass has kept an uncompleted binding
C17_Witness ==
    /\ Len(aout) = 2
    /\ \E i \in 1..Len(ain.materials) :
            /\ PreviousBinding(1, i) \in Eligible \cap ain.completed
            /\ NewBinding(1, i) \in SkillCandidates(i) \ ain.completed
            /\ NewBinding(1, i) # PreviousBinding(1, i)
    /\ \E i \in 1..Len(ain.materials) :
            /\ PreviousBinding(2, i) \in Eligible \ ain.completed
            /\ PreviousBinding(2, i) \notin BoundEarlier(2, i)
            /\ NewBinding(2, i) = PreviousBinding(2, i)

\* in pass k every eligible assessment of the skill of material i is bound to
\* an earlier material, and the skill has one
SkillExhausted(k, i) ==
    /\ SkillCandidates(i) # {}
    /\ SkillCandidates(i) \subseteq BoundEarlier(k, i)

\* pass k keeps the stored binding of material i, an eligible assessment no
\* earlier material has
KeptUnboundBinding(k, i) ==
    /\ NewBinding(k, i) = PreviousBinding(k, i)
    /\ NewBinding(k, i) \in Eligible \ BoundEarlier(k, i)

-----------------------------------------------------------------------------
(* Properties of SpecConc *)

\* C4 as stated: when two advance_to_next_level calls for the same block
\* overlap (one starts before the other has committed its level-up) and both
\* return, the level-up is applied once: every score is the score before both
\* calls raised once, one history row is added, and one caller returns
\* already_applied = true with the plan id the other caller generated.
C4_OverlappingAdvanceAppliesOnce ==
    (/\ \A s \in Sessions :
            /\ sess[s].op = "advance_to_next_level"
            /\ sess[s].pc = "done"
            /\ sess[s].result.status = "ok"
            /\ sess[s].plan_id = 1
     /\ \E s \in Sessions : sess[s].overlap)
    => /\ history = 1
       /\ profile = ApplyFinalLevelUp(ConcProfile, plans[1].content.target_difficulty)
       /\ \E first, second \in Sessions :
            /\ first # second
            /\ ~sess[first].result.already_applied
            /\ sess[second].result.already_applied
            /\ sess[second].result.new_plan_id = sess[first].result.new_plan_id

\* C8 as stated: when two calls that rewrite the content of one plan (task or
\* material marks, tracking passes) overlap and have returned, the stored
\* document shows the effect of every call that reported success: the material
\* opened, the task completed.
C8_NoLostUpdate ==
    (\A s \in Sessions :
        /\ sess[s].pc = "done"
        /\ sess[s].op \in {"get_active_plan", "complete_task", "article_open"})
    => \A s \in Sessions :
        sess[s].result.status = "ok" =>
            /\ sess[s].op = "article_open" =>
                    Get(plans[sess[s].plan_id].content.material_progress, sess[s].arg,
                        NoEntry).article_opened
            /\ sess[s].op = "complete_task" =>
                    \E k \in 1..Len(plans[sess[s].plan_id].content.tasks) :
                        /\ plans[sess[s].plan_id].content.tasks[k].id = sess[s].arg
                        /\ plans[sess[s].plan_id].content.tasks[k].status = "completed"

-----------------------------------------------------------------------------
(* Properties of SpecLevel *)

\* the floor the level-up of a block of the given difficulty guarantees
BlockFloor(difficulty) ==
    CASE difficulty = "advanced" -> 85
      [] difficulty = "intermediate" -> 75
      [] OTHER -> 45

\* the call that just returned applied a level-up
AppliedLevelUp(r) ==
    /\ r.op = "advance_to_next_level"
    /\ r.status \in {"ok", "generation_failed"}
    /\ ~r.already_applied

\* C12: when advance_to_next_level applies a level-up every score s becomes
\* min(100, max(s + 8, floor)) with floor 45, 75 or 85 for the difficulty
\* stored in the plan being completed; no score decreases, none exceeds 100
\* and all end at or above the floor.
C12_LevelUpScores ==
    [][AppliedLevelUp(result')
       => \A s \in SkillSet :
            /\ profile'[s] = Min({100, Max({profile[s] + 8,
                                  BlockFloor(plans[result'.plan_id].content.target_difficulty)})})
            /\ profile'[s] >= profile[s]
            /\ profile'[s] <= 100
            /\ profile'[s] >= BlockFloor(plans[result'.plan_id].content.target_difficulty)]_vars

\* an advanced block was levelled up:
\* one score was lifted to the floor 85 and one capped at 100
C12_Witness ==
    /\ AppliedLevelUp(result)
    /\ plans[1].content.target_difficulty = "advanced"
    /\ \E s \in SkillSet : profile[s] = 85
    /\ \E s \in SkillSet : profile[s] = 100
    /\ history = 1

-----------------------------------------------------------------------------
(* Properties of SpecCollect *)

\* no two entries of the list have the same id
IdUnique(achievements) ==
    \A i, j \in 1..Len(achievements) : achievements[i].id = achievements[j].id => i = j

\* block j of the history received a level-up: its final_stage records it or
\* some plan lists its achievement
Levelled(planlist, j) ==
    \/ LevelUpApplied(planlist, j)
    \/ \E i \in 1..Len(planlist) : BlockEntries(planlist[i].content.block_achievements, j) # {}

\* the list holds exactly one entry of every levelled block, under the id
\* block_{plan id}_{difficulty}
OneEntryPerBlock(achievements, planlist) ==
    \A j \in 1..Len(planlist) :
        Levelled(planlist, j) =>
            /\ Cardinality(BlockEntries(achievements, j)) = 1
            /\ \A k \in BlockEntries(achievements, j) :
                    achievements[k].id = <<"block", j, planlist[j].content.target_difficulty>>

LegacyLevelled(planlist, j) ==
    /\ planlist[j].content.block_achievements = <<>>
    /\ LevelUpApplied(planlist, j)

\* C15: _collect_block_achievements returns, for every plan of the history
\* without a block_achievements list and with final_stage.level_up_applied,
\* one entry with that final stage's achievement title and achieved_at =
\* completed_at, together with every entry of the plans that have a list.
C15_LegacyAchievementsKept ==
    \A k \in 1..Len(aout) :
        /\ \A j \in 1..Len(plans) :
                LegacyLevelled(plans, j) =>
                    /\ Cardinality(BlockEntries(aout[k], j)) = 1
                    /\ \A e \in BlockEntries(aout[k], j) :
                            /\ aout[k][e].title = plans[j].content.final_stage.achievement_title
                            /\ aout[k][e].achieved_at = plans[j].content.final_stage.completed_at
        /\ \A j \in 1..Len(plans) :
                \A i \in 1..Len(plans[j].content.block_achievements) :
                    \E e \in 1..Len(aout[k]) :
                        aout[k][e] = plans[j].content.block_achievements[i]

\* a history was merged in which one levelled block has no list and another
\* plan has a list with an entry
C15_Witness ==
    /\ aout # <<>>
    /\ Len(plans) = 2
    /\ \E j \in 1..Len(plans) : LegacyLevelled(plans, j)
    /\ \E j \in 1..Len(plans) : plans[j].content.block_achievements # <<>>
    /\ Len(aout[1]) = 2

-----------------------------------------------------------------------------
(* Properties of SpecDrift *)

\* the difficulty resolved from the profile is not the one stored in plan i
DifficultyDrifted(planlist, i, prof) ==
    ResolveTargetDifficulty(prof) # planlist[i].content.target_difficulty

C20_TargetDifficultyFixed ==
    [][\A i \in ActivePlans(plans) :
            plans'[i].content.target_difficulty = plans[i].content.target_difficulty]_vars

-----------------------------------------------------------------------------
(* Properties of SpecSelect *)

\* the catalog ids the previous plans do not exclude
NonExcludedIds(previous_plans) ==
    {CuratedMaterialLibrary[i].id : i \in 1..Len(CuratedMaterialLibrary)}
    \ ExtractPreviousMaterialIds(previous_plans)

\* the ids of a list of materials
MaterialIds(materials) == {materials[i].id : i \in 1..Len(materials)}

\* C21: _select_curated_materials returns exactly 7 items for every exclusion
\* set: when the non-excluded entries do not suffice it fills up with entries
\* used in the previous plans.
C21_AlwaysSevenMaterials ==
    aout # <<>> => Len(aout[1]) = DefaultMaterialLimit

\* C22: _select_curated_materials returns at most 7 items with pairwise
\* distinct ids, and an id of the previous plans' materials is in the result
\* only if fewer than 7 catalog entries are not excluded.
C22_SelectionBoundedAndFresh ==
    aout # <<>> =>
        /\ Len(aout[1]) <= DefaultMaterialLimit
        /\ Cardinality(MaterialIds(aout[1])) = Len(aout[1])
        /\ MaterialIds(aout[1]) \cap ExtractPreviousMaterialIds(plans) # {}
                => Cardinality(NonExcludedIds(plans)) < DefaultMaterialLimit

\* a selection was made while the previous plans left fewer than 7 entries
\* not excluded: it holds those entries only
C22_Witness ==
    /\ aout # <<>>
    /\ ExtractPreviousMaterialIds(plans) # {}
    /\ aout[1] # <<>>
    /\ Cardinality(NonExcludedIds(plans)) < DefaultMaterialLimit
    /\ MaterialIds(aout[1]) = NonExcludedIds(plans)

-----------------------------------------------------------------------------
(* Properties of SpecMark *)

\* plan_id is a non-archived plan of the user and holds the task
HasTask(planlist, plan_id, task_id) ==
    \E i \in 1..Len(planlist) :
        /\ planlist[i].id = plan_id
        /\ ~planlist[i].is_archived
        /\ \E k \in 1..Len(planlist[i].content.tasks) :
                planlist[i].content.tasks[k].id = task_id

\* plan_id is a non-archived plan of the user and holds the material
HasMaterial(planlist, plan_id, material_id) ==
    \E i \in 1..Len(planlist) :
        /\ planlist[i].id = plan_id
        /\ ~planlist[i].is_archived
        /\ \E k \in 1..Len(planlist[i].content.materials) :
                planlist[i].content.materials[k].id = material_id

MarkErrors == {"plan_not_found", "task_not_found", "material_not_found"}

\* C23: mark_task_completed and mark_material_article_open fail with an error
\* and persist no change when the plan id is not a non-archived plan of the
\* user, or when the task id / material id is not in that plan.
C23_MarkNotFoundPersistsNothing ==
    [][/\ \A plan_id \in MarkPlanIds, task_id \in MarkTaskIds :
            MarkTaskCompleted(plan_id, task_id) /\ ~HasTask(plans, plan_id, task_id)
                => /\ result'.status \in MarkErrors
                   /\ UNCHANGED <<plans, tests, events, profile, history>>
       /\ \A plan_id \in MarkPlanIds, material_id \in MaterialInputs :
            MarkMaterialArticleOpen(plan_id, material_id)
            /\ ~HasMaterial(plans, plan_id, material_id)
                => /\ result'.status \in MarkErrors
                   /\ UNCHANGED <<plans, tests, events, profile, history>>]_vars

\* a task of the active plan is completed and a material of it opened, and
\* the last call failed: some earlier call persisted its mark, this one nothing
C23_Witness ==
    /\ result.status \in MarkErrors
    /\ \E i \in ActivePlans(plans) :
            /\ \E k \in 1..Len(plans[i].content.tasks) :
                    plans[i].content.tasks[k].status = "completed"
            /\ plans[i].content.material_progress # EmptyMap
    /\ \A i \in 1..Len(plans) :
            plans[i].is_archived =>
                /\ \A k \in 1..Len(plans[i].content.tasks) :
                        plans[i].content.tasks[k].status = "pending"
                /\ plans[i].content.material_progress = EmptyMap

-----------------------------------------------------------------------------
(* Properties of SpecProfile *)

\* the skill a weakness name stands for, and its place in the declaration
SkillOfName(name) == CHOOSE skill \in SkillSet : WeaknessName(skill) = name
Declared(skill) == CHOOSE i \in 1..Len(WeaknessOrder) : WeaknessOrder[i] = skill

\* skill a comes before skill b: lower score, or equal score and declared first
Weaker(prof, a, b) ==
    \/ prof[a] < prof[b]
    \/ prof[a] = prof[b] /\ Declared(a) < Declared(b)

\* the list of names is the three weakest skills of the profile, in order
ThreeWeakest(prof, names) ==
    LET returned == {SkillOfName(names[k]) : k \in 1..Len(names)}
    IN /\ Len(names) = 3
       /\ Cardinality({names[k] : k \in 1..Len(names)}) = 3
       /\ \A k \in 1..Len(names) : \E skill \in SkillSet : WeaknessName(skill) = names[k]
       /\ \A a \in returned, b \in SkillSet \ returned :
                prof[a] <= prof[b] /\ Weaker(prof, a, b)
       /\ \A k, l \in 1..Len(names) :
                k < l => Weaker(prof, SkillOfName(names[k]), SkillOfName(names[l]))

\* C24: _identify_weaknesses returns exactly 3 pairwise distinct skill names;
\* the score of every returned skill is at most the score of each skill not
\* returned; skills of equal score are ordered by their declaration order.
C24_ThreeWeakestSkills ==
    (aout # <<>> /\ aout[1].op = "identify_weaknesses")
        => ThreeWeakest(profile, aout[1].value)

\* the weaknesses of a profile in which a returned skill and a skill not
\* returned have the same score
C24_Witness ==
    /\ aout # <<>>
    /\ aout[1].op = "identify_weaknesses"
    /\ \E k \in 1..3, skill \in SkillSet :
            /\ \A l \in 1..3 : aout[1].value[l] # WeaknessName(skill)
            /\ profile[SkillOfName(aout[1].value[k])] = profile[skill]
    /\ \E k \in 1..3 :
            profile[SkillOfName(aout[1].value[k])] < profile[SkillOfName(aout[1].value[3])]

\* the difficulties in ascending order
DifficultyRank(difficulty) ==
    CASE difficulty = "beginner" -> 1
      [] difficulty = "intermediate" -> 2
      [] difficulty = "advanced" -> 3

\* C25: _resolve_target_difficulty maps the average a of the five scores to
\* beginner when a < 40, intermediate when 40 <= a < 70, advanced when
\* a >= 70, and a higher average never yields a lower difficulty.
C25_DifficultyBands ==
    (aout # <<>> /\ aout[1].op = "resolve_target_difficulty")
        => /\ aout[1].value = "beginner" <=> ScoreSum(profile) < 5 * 40
           /\ aout[1].value = "intermediate"
                <=> (5 * 40 <= ScoreSum(profile) /\ ScoreSum(profile) < 5 * 70)
           /\ aout[1].value = "advanced" <=> ScoreSum(profile) >= 5 * 70
           /\ \A other \in ProfileInputs :
                ScoreSum(profile) <= ScoreSum(other)
                    => DifficultyRank(aout[1].value)
                        <= DifficultyRank(ResolveTargetDifficulty(other))

\* the difficulty of a profile whose average is exactly 40 is intermediate
C25_Witness ==
    /\ aout # <<>>
    /\ aout[1].op = "resolve_target_difficulty"
    /\ ScoreSum(profile) = 5 * 40
    /\ aout[1].value = "intermediate"

-----------------------------------------------------------------------------
(* Properties of SpecUnique *)

\* the ids of the new content that the previous plan does not hold
NewIds(materials, previous_plan) ==
    MaterialIds(materials) \ MaterialIds(previous_plan.content.materials)

\* at least 70% of the ids of the new content are new, or a side is empty
EnoughNew(materials, previous_plan) ==
    \/ materials = <<>>
    \/ previous_plan.content.materials = <<>>
    \/ 10 * Cardinality(NewIds(materials, previous_plan)) >= 7 * Cardinality(MaterialIds(materials))

\* C26: _check_material_uniqueness returns true exactly when at least 70% of
\* the new plan's material ids do not occur among the previous plan's (and
\* when either side has no materials); _generate_new_plan saves the new plan
\* whatever the check returns.
C26_UniquenessIsAdvisory ==
    [][/\ UniquenessPass => (aout'[1].value <=> EnoughNew(ain.materials, plans[1]))
       /\ SaveCheckedPlan
            => /\ aout'[1].value <=> EnoughNew(ain.materials, plans[1])
               /\ Len(plans') = Len(plans) + 1
               /\ ActivePlans(plans') = {Len(plans')}
               /\ plans'[Len(plans')].content.materials = ain.materials
               /\ result'.status = "ok"]_vars

\* a plan was saved although fewer than 70% of its materials are new
C26_Witness ==
    /\ aout # <<>>
    /\ aout[1].op = "generate_new_plan"
    /\ ~aout[1].value
    /\ Len(plans) = 2
    /\ ~plans[2].is_archived
    /\ plans[2].content.materials = ain.materials
    /\ ~EnoughNew(plans[2].content.materials, plans[1])

\* the statuses of advance_to_next_level raising before the level-up
RejectedStatuses == {"no_active_plan", "not_unlocked", "not_completed"}

\* the keys of content sync_plan_tracking writes
DerivedKeys == {"material_test_map", "material_progress", "final_stage"}

\* C35: a rejected advance_to_next_level (no active plan, not unlocked, not
\* completed) changes no profile score, adds no profile-history row, sets
\* level_up_applied on no plan, appends no achievement and neither archives
\* nor creates a plan; what it persists is what its tracking pass writes: the
\* derived keys of the active plan's content and the catalog as that pass
\* left it, and nothing at all when there is no active plan.
C35_RejectedAdvanceKeepsLevel ==
    [][(result'.op = "advance_to_next_level" /\ result'.status \in RejectedStatuses)
       => /\ profile' = profile
          /\ history' = history
          /\ Len(plans') = Len(plans)
          /\ \A i \in 1..Len(plans) :
                /\ plans'[i].id = plans[i].id
                /\ plans'[i].is_archived = plans[i].is_archived
                /\ plans'[i].generated_at = plans[i].generated_at
                /\ LevelUpApplied(plans', i) => LevelUpApplied(plans, i)
                /\ DOMAIN plans'[i].content = DOMAIN plans[i].content
                /\ \A key \in DOMAIN plans[i].content \ DerivedKeys :
                        plans'[i].content[key] = plans[i].content[key]
                /\ i # GetActivePlan(plans) => plans'[i] = plans[i]
          /\ IF GetActivePlan(plans) = 0
             THEN plans' = plans /\ tests' = tests
             ELSE \E t \in {Tracked("advance_to_next_level", plans, GetActivePlan(plans),
                                    tests, events, clock)} :
                        plans' = t.plans /\ tests' = t.tests]_vars

\* advance_to_next_level has been rejected for the missing final items of an
\* unlocked block, and its tracking pass committed derived progress
C35_Witness ==
    /\ result.op = "advance_to_next_level"
    /\ result.status = "not_completed"
    /\ result.changed
    /\ result.view.final_stage.unlocked
    /\ ~LevelUpApplied(plans, GetActivePlan(plans))

-----------------------------------------------------------------------------
(* Properties of SpecWindow *)

\* the completion events _get_completion_test_ids counts for a plan generated
\* at generated_at when asked for the completions before it (anti-repetition)
CountedBefore(generated_at) ==
    {e \in events : GetCompletionTestIds({e}, {e[1]}, NoTime, generated_at) # {}}

\* the completion events it counts when asked for the completions since then
\* (progress)
CountedAfter(generated_at) ==
    {e \in events : GetCompletionTestIds({e}, {e[1]}, generated_at, NoTime) # {}}

\* assessment test_id has a completion at or after time generated_at
CompletedSince(test_id, generated_at) ==
    \E e \in events : e[1] = test_id /\ e[2] >= generated_at

\* C27: in the result of a tracking pass a material's test_completed is true
\* exactly when its linked assessment has a completion at or after the plan's
\* generated_at, and final_test_completed and final_simulation_completed are
\* true exactly when the final test and the final simulation have one; a
\* completion from before the generation leaves the flag false.  No
\* completion event is counted both as before and as since the generation of
\* the same plan, and every event is counted as one of the two.
C27_CompletionsCountSinceGeneration ==
    /\ (result.op \in TrackingOps /\ result.plan_id \in 1..Len(plans)) =>
            LET generated_at == plans[result.plan_id].generated_at
                view == result.view
            IN /\ \A m \in DOMAIN view.material_progress :
                    view.material_progress[m].test_completed
                        <=> CompletedSince(view.material_progress[m].linked_test_id,
                                           generated_at)
               /\ view.final_stage.final_test_completed
                    <=> CompletedSince(view.final_stage.final_test_id, generated_at)
               /\ view.final_stage.final_simulation_completed
                    <=> CompletedSince(view.final_stage.final_simulation_id, generated_at)
    /\ \A i \in 1..Len(plans) :
            /\ CountedBefore(plans[i].generated_at) \cap CountedAfter(plans[i].generated_at) = {}
            /\ CountedBefore(plans[i].generated_at) \cup CountedAfter(plans[i].generated_at) = events

\* a tracking pass on the second block: the final test, shared with the first
\* block, and the assessment linked to a material were completed only before
\* the block was generated and are reported not completed, while the final
\* simulation, completed at the time of generation, is reported completed
C27_Witness ==
    /\ result.op \in TrackingOps
    /\ result.status = "ok"
    /\ result.plan_id = 2
    /\ Len(plans) = 2
    /\ \E e \in events :
            /\ e[1] = result.view.final_stage.final_test_id
            /\ e[2] < plans[2].generated_at
    /\ ~result.view.final_stage.final_test_completed
    /\ \E e \in events :
            /\ e[1] = result.view.final_stage.final_simulation_id
            /\ e[2] = plans[2].generated_at
    /\ result.view.final_stage.final_simulation_completed
    /\ \E m \in DOMAIN result.view.material_progress :
            /\ \E e \in events : e[1] = result.view.material_progress[m].linked_test_id
            /\ ~result.view.material_progress[m].test_completed

-----------------------------------------------------------------------------
(* Properties of SpecProgress *)

\* the tasks of content that are completed
CompletedTasks(content) ==
    {k \in 1..Len(content.tasks) : content.tasks[k].status = "completed"}

\* the materials of content whose entry in view is opened
OpenedMaterials(content, view) ==
    {k \in 1..Len(content.materials) :
        /\ content.materials[k].id \in DOMAIN view.material_progress
        /\ view.material_progress[content.materials[k].id].article_opened}

\* the materials of content whose entry in view has its linked test completed
TestedMaterials(content, view) ==
    {k \in 1..Len(content.materials) :
        /\ content.materials[k].id \in DOMAIN view.material_progress
        /\ view.material_progress[content.materials[k].id].test_completed}

\* content has neither tasks nor materials
EmptyPlan(content) == content.tasks = <<>> /\ content.materials = <<>>

\* C30: a tracking pass reports completed = completed tasks + opened
\* materials + materials whose linked test is completed and total = tasks +
\* 2 x materials, so 0 <= completed <= total.  A plan with no tasks and no
\* materials is reported with percentage 0 and unlocked = false, its stored
\* final stage is never unlocked, and advance_to_next_level on it is refused
\* as not unlocked.
C30_ProgressCounts ==
    /\ (result.op \in TrackingOps /\ result.plan_id \in 1..Len(plans)) =>
            LET content == plans[result.plan_id].content
                progress == result.view.progress
            IN /\ progress.completed
                    = Cardinality(CompletedTasks(content))
                      + Cardinality(OpenedMaterials(content, result.view))
                      + Cardinality(TestedMaterials(content, result.view))
               /\ progress.total = Len(content.tasks) + 2 * Len(content.materials)
               /\ 0 <= progress.completed
               /\ progress.completed <= progress.total
               /\ EmptyPlan(content)
                    => /\ progress.percentage = 0
                       /\ ~result.view.final_stage.unlocked
                       /\ result.op = "advance_to_next_level"
                            => result.status = "not_unlocked"
    /\ \A i \in 1..Len(plans) :
            EmptyPlan(plans[i].content) => ~plans[i].content.final_stage.unlocked

\* advance_to_next_level was refused on a plan with no tasks and no materials
\* whose two final items are completed
C30_Witness ==
    /\ result.op = "advance_to_next_level"
    /\ result.status = "not_unlocked"
    /\ result.plan_id = 1
    /\ EmptyPlan(plans[1].content)
    /\ result.view.progress.total = 0
    /\ result.view.progress.percentage = 0
    /\ result.view.final_stage.completed

-----------------------------------------------------------------------------
(* Properties of SpecOpen *)

\* the stored progress entry of material m of plan row i
StoredEntry(planlist, i, m) == Get(planlist[i].content.material_progress, m, NoEntry)

\* the material ids of plan row i
PlanMaterialIds(planlist, i) ==
    {planlist[i].content.materials[k].id : k \in 1..Len(planlist[i].content.materials)}

\* C31: once a material of a plan is opened (article_opened = true after a
\* successful mark_material_article_open) every later call on the plan,
\* tracking pass or mark, keeps article_opened = true in the stored entry, and
\* a tracking pass returns it as opened; a repeated mark_material_article_open
\* leaves article_opened_at as it was.
C31_ArticleOpenedSticky ==
    [][\A i \in 1..Len(plans) : \A m \in PlanMaterialIds(plans, i) :
          StoredEntry(plans, i, m).article_opened
            => /\ StoredEntry(plans', i, m).article_opened
               /\ StoredEntry(plans', i, m).article_opened_at
                    = StoredEntry(plans, i, m).article_opened_at
               /\ (result'.op = "sync_plan_tracking" /\ result'.plan_id = plans[i].id)
                    => /\ m \in DOMAIN result'.view.material_progress
                       /\ result'.view.material_progress[m].article_opened
                       /\ result'.view.material_progress[m].article_opened_at
                            = StoredEntry(plans, i, m).article_opened_at]_vars

\* mark_material_article_open was repeated at a later time on a material that
\* carries the time of its first opening
C31_Witness ==
    /\ result.op = "mark_material_article_open"
    /\ result.status = "ok"
    /\ \E m \in PlanMaterialIds(plans, 1) :
            /\ StoredEntry(plans, 1, m).article_opened
            /\ StoredEntry(plans, 1, m).article_opened_at # NoTime
            /\ StoredEntry(plans, 1, m).article_opened_at < clock
            /\ StoredEntry(plans, 1, m).full

-----------------------------------------------------------------------------
(* Properties of SpecFinal *)

\* plan row i has both final assessments recorded
FinalIdsSet(planlist, i) ==
    /\ planlist[i].content.final_stage.final_test_id # NoId
    /\ planlist[i].content.final_stage.final_simulation_id # NoId

\* the tracking pass that just returned left plan row i with two different
\* final assessments of the catalog, a non-simulation and a simulation
FinalIdsWellFormed(planlist, i, testlist) ==
    /\ FinalIdsSet(planlist, i)
    /\ planlist[i].content.final_stage.final_test_id
            # planlist[i].content.final_stage.final_simulation_id
    /\ \E k \in 1..Len(testlist) :
            /\ testlist[k].id = planlist[i].content.final_stage.final_test_id
            /\ testlist[k].type # "simulation"
    /\ \E k \in 1..Len(testlist) :
            /\ testlist[k].id = planlist[i].content.final_stage.final_simulation_id
            /\ testlist[k].type = "simulation"

\* plan rows i and j of the same difficulty are bound to the same two final
\* assessments
SameFinalAssessments(planlist, i, j) ==
    (/\ FinalIdsSet(planlist, i)
     /\ FinalIdsSet(planlist, j)
     /\ NormalizeDifficulty(planlist[i].content.target_difficulty)
            = NormalizeDifficulty(planlist[j].content.target_difficulty))
    => /\ planlist[i].content.final_stage.final_test_id
            = planlist[j].content.final_stage.final_test_id
       /\ planlist[i].content.final_stage.final_simulation_id
            = planlist[j].content.final_stage.final_simulation_id

\* a tracking pass on plan row i, and what it leaves of the final assessments
\* of the row: two well-formed ids, the ids the row had when it had them, and
\* then no new assessment
FinalIdsKept(i) ==
    (result'.op \in TrackingOps /\ result'.plan_id = plans[i].id)
    => /\ FinalIdsWellFormed(plans', i, tests')
       /\ FinalIdsSet(plans, i)
            => /\ plans'[i].content.final_stage.final_test_id
                    = plans[i].content.final_stage.final_test_id
               /\ plans'[i].content.final_stage.final_simulation_id
                    = plans[i].content.final_stage.final_simulation_id
               /\ Len(tests') = Len(tests)

\* C32 as stated: after a tracking pass of a plan its final_test_id and
\* final_simulation_id are set, differ and refer to a non-simulation and a
\* simulation assessment; every later pass on the plan keeps the two ids and
\* creates no assessment; and two plans of the same difficulty are bound to
\* the same two assessments.
C32_FinalAssessmentsPerDifficulty ==
    [][/\ \A i \in 1..Len(plans) : FinalIdsKept(i)
       /\ \A i \in 1..Len(plans') : \A j \in 1..Len(plans') :
                SameFinalAssessments(plans', i, j)]_vars

\* the part of C32 about one plan: the ids a tracking pass leaves are well
\* formed and stay, and a later pass creates no assessment
C32_FinalIdsOfOnePlanKept ==
    [][\A i \in 1..Len(plans) : FinalIdsKept(i)]_vars

-----------------------------------------------------------------------------
(* Properties of SpecRaise *)

\* a plan of difficulty next may follow a levelled-up block of difficulty
\* block: intermediate or advanced after beginner, advanced after the others
FollowsBlock(block, next) ==
    IF NormalizeDifficulty(block) = "beginner"
    THEN next \in {"intermediate", "advanced"}
    ELSE next = "advanced"

\* the step generates a plan while the active plan is a levelled-up block
GeneratedAfterLevelUp ==
    /\ Len(plans') = Len(plans) + 1
    /\ GetActivePlan(plans) # 0
    /\ LevelUpApplied(plans', GetActivePlan(plans))

\* C34 as stated: whenever a plan is generated after the level-up of the
\* active block, its target_difficulty is intermediate or advanced when the
\* block was a beginner block and advanced when the block was intermediate or
\* advanced.
C34_NextPlanNotLower ==
    [][GeneratedAfterLevelUp
       => FollowsBlock(plans'[GetActivePlan(plans)].content.target_difficulty,
                       plans'[Len(plans')].content.target_difficulty)]_vars

\* C34, amended: the plan generated by the advance_to_next_level call that
\* applies the level-up has target_difficulty intermediate or advanced after
\* a beginner block and advanced after an intermediate or advanced block; so
\* has a plan generated later while the profile is still the raised one.
C34_NextPlanNotLowerInSameCall ==
    [][(/\ GeneratedAfterLevelUp
        /\ \/ result'.op = "advance_to_next_level" /\ ~result'.already_applied
           \/ profile = ApplyFinalLevelUp(
                            profile, plans[GetActivePlan(plans)].content.target_difficulty))
       => FollowsBlock(plans'[GetActivePlan(plans)].content.target_difficulty,
                       plans'[Len(plans')].content.target_difficulty)]_vars

\* advance_to_next_level has levelled up an intermediate block of a user
\* with a score of 0, which it raised to the floor 75, and generated an
\* advanced plan
C34_Witness ==
    /\ result.op = "advance_to_next_level"
    /\ result.status = "ok"
    /\ ~result.already_applied
    /\ Len(plans) = 2
    /\ plans[1].content.target_difficulty = "intermediate"
    /\ plans[2].content.target_difficulty = "advanced"
    /\ \E sk \in SkillSet : profile[sk] = 75

-----------------------------------------------------------------------------
(* Properties of SpecTrack *)

\* the completed count of plan row i as its stored progress entries give it
StoredCompleted(planlist, i) ==
    ComputeComponentsProgress(planlist[i].content.tasks, planlist[i].content.materials,
                              planlist[i].content.material_progress).completed

\* no call of SpecTrack changes the catalog, the materials of the plan or the
\* completions before the plan
TrackInputsFixed ==
    [][/\ tests' = tests
       /\ \A i \in 1..Len(plans) : plans'[i].content.materials = plans[i].content.materials
       /\ {e \in events' : e[2] < plans[1].generated_at}
            = {e \in events : e[2] < plans[1].generated_at}]_vars

\* C36: with the materials, the catalog and the completions before the plan
\* unchanged, no call (tracking pass, material opening, assessment completion)
\* turns a stored test_completed from true to false, and the completed count
\* of the stored progress never decreases.
C36_ProgressNeverGoesBack ==
    [][tests' = tests => \A i \in 1..Len(plans) :
          /\ \A m \in PlanMaterialIds(plans, i) :
                StoredEntry(plans, i, m).test_completed
                    => StoredEntry(plans', i, m).test_completed
          /\ StoredCompleted(plans', i) >= StoredCompleted(plans, i)]_vars

-----------------------------------------------------------------------------
(* Properties of SpecFinish *)

\* the catalog has an assessment sync_plan_tracking offers to materials
HasEligible == RegularTests(tests) # <<>>

\* a tracking pass has just returned the block complete and unlocked
BlockDone ==
    /\ result.op \in TrackingOps
    /\ result.status = "ok"
    /\ result.view.progress.percentage = 100 * PercentScale
    /\ result.view.final_stage.unlocked

\* C37: a tracking pass that finds an eligible assessment in the catalog links
\* every material of the plan to an assessment; and a user who leaves nothing
\* undone (the task, the openings, the linked assessments) gets, whenever the
\* catalog has an eligible assessment, to a tracking pass that returns
\* percentage = 100 and unlocked = true.
C37_NeverStuck ==
    /\ [][(result'.op \in TrackingOps /\ result'.status = "ok" /\ HasEligible)
          => \A m \in PlanMaterialIds(plans', 1) :
                /\ m \in DOMAIN result'.view.material_progress
                /\ result'.view.material_progress[m].linked_test_id # NoId]_vars
    /\ HasEligible ~> BlockDone

\* a tracking pass returns a plan of two materials complete and unlocked: its
\* task is completed and a linked assessment was completed since generation
C37_Witness ==
    /\ BlockDone
    /\ \E e \in events : e[2] >= plans[1].generated_at
    /\ Len(plans[1].content.materials) = MaxAssignMaterials
    /\ plans[1].content.tasks[1].status = "completed"

-----------------------------------------------------------------------------
(* Properties of SpecOverlap *)

\* C38: once the user has a plan and no generation is under way, the user has
\* exactly one non-archived plan, whichever way the generations overlapped.
C38_OneActivePlanAfterOverlap ==
    (Generating = {} /\ plans # <<>>) => Cardinality(ActivePlans(plans)) = 1

-----------------------------------------------------------------------------
(* Properties of SpecShared *)

\* the committed final tests and final simulations of a difficulty
FinalTestsOf(difficulty) ==
    {i \in 1..Len(tests) :
        /\ tests[i].type = "quiz"
        /\ tests[i].title \in {FinalTestTitle(difficulty), LegacyFinalTestTitle(difficulty)}}

FinalSimulationsOf(difficulty) ==
    {i \in 1..Len(tests) :
        /\ tests[i].type = "simulation"
        /\ tests[i].title \in {FinalSimulationTitle(difficulty),
                               LegacyFinalSimulationTitle(difficulty)}}

\* C39: whatever the interleaving of the users' sync_plan_tracking calls, the
\* shared catalog holds at most one final test and at most one final
\* simulation of each difficulty.
C39_OneFinalPairPerDifficulty ==
    \A difficulty \in Difficulties :
        /\ Cardinality(FinalTestsOf(difficulty)) <= 1
        /\ Cardinality(FinalSimulationsOf(difficulty)) <= 1

====
